---- MODULE Spec2Model ----
(***************************************************************************)
(* Seat-booking concurrency controller of the bikepool application:        *)
(* book_ride, cancel_booking, delete_ride, post_bike_ride and rate_ride of *)
(* app/routes/rides.py, edit_profile and delete_notification of            *)
(* app/routes/main.py and send_message of app/events.py running as         *)
(* concurrent requests against one database (users, rides, bookings,       *)
(* messages, ratings, notifications), with the time policy of              *)
(* get_ride_datetime and the sinks of app/utils.py.                        *)
(*                                                                         *)
(* A request is a process.  Its steps are cut at the database statements:  *)
(* every SELECT reads the committed state of that moment, and a write      *)
(* transaction (UPDATE ... COMMIT) is one step, because the write lock     *)
(* taken by its first statement keeps every other writer out until the     *)
(* COMMIT or ROLLBACK.  A commit or a rollback expires the objects the     *)
(* session holds: the next access to one of them is a SELECT of its row.   *)
(***************************************************************************)
EXTENDS Integers, Sequences, FiniteSets, TLC

VARIABLES
    rides,          \* table bike_ride: ride id -> row (ids of existing rows only)
    bookings,       \* table booking: set of rows [id, ride_id, passenger_id]
    ratings,        \* table rating: set of rows [id, ride_id, passenger_id]
    messages,       \* table message: set of rows [id, ride_id]
    genders,        \* table user, column gender: user id -> gender
    notifications,  \* table notification: set of rows [id, user_id]
    emitted,        \* socketio 'new_notification' emits: user id -> number
    outbox,         \* sender threads that have not sent their mail yet: user id -> number
    emails,         \* booking confirmations the sender threads delivered: user id -> number
    now,            \* datetime.now()
    pc,             \* request slot -> position in its handler
    req,            \* request slot -> [kind, user_id, ride_id]
    attempt,        \* request slot -> book_ride's attempt counter
    local,          \* request slot -> the objects and values the handler holds
    result,         \* request slot -> outcome of the finished request
    quota,          \* number of requests the behaviour still receives
    applied,        \* history: request slot -> seat mutations its request committed
    posted,         \* history: ride id -> seats the ride was posted with
    hist            \* history: the committed seat mutations, in commit order

vars == <<rides, bookings, ratings, messages, genders, notifications, emitted, outbox,
          emails, now, pc, req, attempt, local, result, quota, applied, posted, hist>>

----------------------------------------------------------------------------
(* Bounds of the model *)

MaxSeats == 2       \* a ride is posted with 1..MaxSeats seats
MaxRequests == 4    \* requests received in one behaviour

(* Program constants *)

max_retries == 4        \* rides.py:32
InitialVersion == 1     \* models.py:54

Rider == 0              \* the owner of the ride
OtherRider == 4         \* a rider who owns no ride at first
Riders == {Rider, OtherRider}
Passengers == {1, 2, 3}
Users == {Rider} \cup Passengers
Accounts == Users \cup {OtherRider}     \* the rows of table user
Procs == {1, 2, 3}          \* request workers; a behaviour runs two or three
RideIds == {1}
TwoRides == {1, 2}          \* the rides of the behaviours with a second ride
Preferences == {"Any", "Male", "Female"}
Genders == {"Male", "Female"}       \* the choices of the profile form
TimesOfDay == 0..3
DayLen == Cardinality(TimesOfDay)
Clock == {0, 1}
NoTime == <<>>          \* ride_end_time IS NULL

\* User.is_rider of the registered users
is_rider(u) == u \in Riders

\* User.gender as the users registered it
RegisteredGender(u) == IF u = 2 THEN "Female" ELSE "Male"

Max(S) == CHOOSE x \in S : \A y \in S : y <= x

----------------------------------------------------------------------------
(* Scheduling / time policy *)

\* datetime.combine(date, time)
combine(d, t) == d * DayLen + t

\* faulty variant: the end instant is never pushed to the next day
get_ride_datetime_same_day(ride_date, ride_time, ride_end_time) ==
    <<combine(ride_date, ride_time),
      combine(ride_date, IF ride_end_time # NoTime THEN ride_end_time[1]
                         ELSE ride_time)>>

\* get_ride_datetime: <<ride_dt_start, ride_dt_end>>
get_ride_datetime(ride_date, ride_time, ride_end_time) ==
    LET ride_dt_start == combine(ride_date, ride_time)
        end_time == IF ride_end_time # NoTime THEN ride_end_time[1] ELSE ride_time
        ride_dt_end == combine(ride_date, end_time)
    IN  IF ride_end_time # NoTime /\ ride_dt_end <= ride_dt_start
        THEN <<ride_dt_start, ride_dt_end + DayLen>>
        ELSE <<ride_dt_start, ride_dt_end>>

ride_dt_end_of(ride) ==
    get_ride_datetime(ride.ride_date, ride.ride_time, ride.ride_end_time)[2]

\* faulty variant: the time check missing
IsCompletedNever(ride, t) == FALSE

\* "if ride_dt_end < datetime.now()" of book_ride and cancel_booking
IsCompleted(ride, t) == ride_dt_end_of(ride) < t

----------------------------------------------------------------------------
(* Booking store *)

\* Booking.query.filter_by(ride_id=, passenger_id=).first()
BookingsOf(r, u) == {b \in bookings : b.ride_id = r /\ b.passenger_id = u}
\* faulty variant: the duplicate check with its two filters swapped
HasBookingSwapped(r, u) == BookingsOf(u, r) # {}
\* faulty variant: the duplicate check finds nothing
HasBookingNever(r, u) == FALSE
HasBooking(r, u) == BookingsOf(r, u) # {}

\* faulty variant: the table without its uniqueness constraint
NoUniqueConstraint(r, u) == FALSE

\* UniqueConstraint('ride_id', 'passenger_id'): the INSERT is rejected
UniqueViolation(r, u) == \E b \in bookings : b.ride_id = r /\ b.passenger_id = u

\* Integer primary key of a new row (SQLite rowid: largest id in the table + 1)
NewId(ids) == IF ids = {} THEN 1 ELSE Max(ids) + 1
NewBookingId == NewId({b.id : b \in bookings})
NewRideId == NewId(DOMAIN rides)
NewMessageId == NewId({m.id : m \in messages})
NewNotificationId == NewId({n.id : n \in notifications})

\* the rows of table notification that belong to user u, counted
Notified(u) == Cardinality({n \in notifications : n.user_id = u})

----------------------------------------------------------------------------
(* book_ride's optimistic update *)

\* faulty variant: the loop admits one more pass
LoopContinuesOnceMore(a) == a <= max_retries

\* while attempt < max_retries
LoopContinues(a) == a < max_retries

\* faulty variant: the gender check left out
GenderAllowedAlways(preference, g) == TRUE

\* the negation of: ride.rider_gender_preference != "Any" and
\* passenger.gender != ride.rider_gender_preference
GenderAllowed(preference, g) == preference = "Any" \/ g = preference

\* faulty variant: the seat check off by one
IsFullBelowZero(seats) == seats < 0

\* if ride.seats_available <= 0
IsFull(seats) == seats <= 0

\* faulty variant: the decrement forgotten
NewSeatsUnchanged(seats) == seats

\* new_seats, new_version
NewSeats(seats) == seats - 1
NewVersion(old_version) == old_version + 1

\* faulty variant: a plain UPDATE ... WHERE id = :id
GuardById(r, old_version) == r \in DOMAIN rides

\* faulty variant: the guard wants a seat to spare after this one
GuardWantsSpareSeat(r, old_version) ==
    /\ r \in DOMAIN rides
    /\ rides[r].version = old_version
    /\ rides[r].seats_available > 1

\* WHERE id = :id AND version = :old_version AND seats_available > 0
GuardMatches(r, old_version) ==
    /\ r \in DOMAIN rides
    /\ rides[r].version = old_version
    /\ rides[r].seats_available > 0

\* faulty variant: the seat is not given back
ReleasedSeatsUnchanged(seats) == seats

\* cancel_booking: ride.seats_available + 1, ride.version + 1
ReleasedSeats(seats) == seats + 1
ReleasedVersion(version) == version + 1

----------------------------------------------------------------------------
\* what a handler holds when it has loaded nothing
NoLocal ==
    [seats_available |-> 0, version |-> 0, booking_id |-> 0, read_at |-> 0,
     rider_id |-> Rider, ride_date |-> 0, ride_time |-> 0, ride_end_time |-> NoTime,
     rider_gender_preference |-> "Any", gender |-> "Male", form |-> "Male",
     todo |-> {}, expired |-> FALSE, cascade |-> {}, chats |-> {}, rated |-> {},
     told |-> <<>>, note_user |-> Rider, note_id |-> 0]
NoReq == [kind |-> "none", user_id |-> Rider, ride_id |-> 1]

\* the ride of the model leaves at time 0 of day 0 and has no end time
Schedules == {[ride_date |-> 0, ride_time |-> 0, ride_end_time |-> NoTime]}

\* a ride as post_bike_ride creates it
NewRide(owner, n, pref, s) ==
    [rider_id |-> owner, seats_available |-> n, version |-> InitialVersion,
     ride_date |-> s.ride_date, ride_time |-> s.ride_time,
     ride_end_time |-> s.ride_end_time, rider_gender_preference |-> pref]

\* the rides the owner has posted when a behaviour begins
PostedRide(n, pref, s) == NewRide(Rider, n, pref, s)

\* the history entry of passenger i booking a ride of n seats after
\* passengers 1..i-1, one request at a time
EarlierBooking(n, i) ==
    [kind |-> "book", ride_id |-> 1, user_id |-> i,
     observed |-> InitialVersion + i - 1, read_at |-> i - 1,
     pre_seats |-> n - i + 1, pre_version |-> InitialVersion + i - 1,
     post_seats |-> n - i, post_version |-> InitialVersion + i,
     has_booking |-> TRUE]

\* The state after the owner posted the rides `ids`, of n seats each, and
\* passengers 1..k booked ride 1 one after the other, every notification
\* emitted and every mail delivered; `workers` request workers are idle and
\* `requests` requests are to come.
QuiescentOn(ids, n, pref, s, k, workers, requests) ==
    /\ k <= n
    /\ genders = [u \in Accounts |-> RegisteredGender(u)]
    /\ \A i \in 1..k : GenderAllowed(pref, genders[i])
    /\ rides = [r \in ids |->
                  IF r = 1
                  THEN [PostedRide(n, pref, s) EXCEPT
                          !.seats_available = n - k, !.version = InitialVersion + k]
                  ELSE PostedRide(n, pref, s)]
    /\ bookings = {[id |-> i, ride_id |-> 1, passenger_id |-> i] : i \in 1..k}
    /\ ratings = {}
    /\ messages = {}
    /\ hist = [i \in 1..k |-> EarlierBooking(n, i)]
    /\ notifications = {[id |-> i, user_id |-> Rider] : i \in 1..k}
    /\ emitted = [u \in Accounts |-> IF u = Rider THEN k ELSE 0]
    /\ outbox = [u \in Accounts |-> 0]
    /\ emails = [u \in Accounts |-> IF u \in 1..k THEN 1 ELSE 0]
    /\ posted = [r \in ids |-> n]
    /\ now = 0
    /\ pc = [p \in Procs |-> IF p \in workers THEN "idle" ELSE "off"]
    /\ req = [p \in Procs |-> NoReq]
    /\ attempt = [p \in Procs |-> 0]
    /\ local = [p \in Procs |-> NoLocal]
    /\ result = [p \in Procs |-> "none"]
    /\ applied = [p \in Procs |-> 0]
    /\ quota = requests

\* the same with the one ride of RideIds
Quiescent(n, pref, s, k, workers, requests) ==
    QuiescentOn(RideIds, n, pref, s, k, workers, requests)

Init ==
    \E n \in 1..MaxSeats, pref \in {"Any", "Female"}, s \in Schedules, k \in {0, 1} :
        Quiescent(n, pref, s, k, {1, 2}, MaxRequests - 1)

----------------------------------------------------------------------------
(* Helpers of the request handlers *)

tables == <<rides, bookings, ratings, messages, genders>>
sinks == <<notifications, emitted, outbox, emails>>

\* return redirect(...): the request ends with an outcome
Finish(p, res) ==
    /\ pc' = [pc EXCEPT ![p] = "done"]
    /\ result' = [result EXCEPT ![p] = res]
    /\ local' = [local EXCEPT ![p] = NoLocal]

\* the handler goes on, holding the objects it has loaded
Goto(p, where) ==
    /\ pc' = [pc EXCEPT ![p] = where]
    /\ UNCHANGED <<result, local>>

\* the handler goes on with what it holds changed
GoWith(p, where, held) ==
    /\ pc' = [pc EXCEPT ![p] = where]
    /\ local' = [local EXCEPT ![p] = held]
    /\ UNCHANGED result

\* faulty variant: the copy made when the ride was posted, never refreshed
LoadedWhenPosted(held, r) ==
    [held EXCEPT
        !.seats_available = posted[r],
        !.version = InitialVersion,
        !.read_at = Len(hist),
        !.rider_id = rides[r].rider_id,
        !.ride_date = rides[r].ride_date,
        !.ride_time = rides[r].ride_time,
        !.ride_end_time = rides[r].ride_end_time,
        !.rider_gender_preference = rides[r].rider_gender_preference]

\* the ride object a handler loads: BikeRide.query.get(ride_id)
Loaded(held, r) ==
    [held EXCEPT
        !.seats_available = rides[r].seats_available,
        !.version = rides[r].version,
        !.read_at = Len(hist),
        !.rider_id = rides[r].rider_id,
        !.ride_date = rides[r].ride_date,
        !.ride_time = rides[r].ride_time,
        !.ride_end_time = rides[r].ride_end_time,
        !.rider_gender_preference = rides[r].rider_gender_preference]

\* one committed seat mutation, as the history records it
Mutation(p, kind, seats, version, booked) ==
    [kind |-> kind, ride_id |-> req[p].ride_id, user_id |-> req[p].user_id,
     observed |-> local[p].version, read_at |-> local[p].read_at,
     pre_seats |-> rides[req[p].ride_id].seats_available,
     pre_version |-> rides[req[p].ride_id].version,
     post_seats |-> seats, post_version |-> version, has_booking |-> booked]

\* the worker that takes the next request: the first free one
FreeSlot(p) ==
    /\ pc[p] \in {"idle", "done"}
    /\ \A q \in Procs : q < p => pc[q] \notin {"idle", "done"}

\* a request arrives at a handler that begins with "if session['is_rider']",
\* which ends it at once; `held` is what the handler loads before its
\* first step
Receive(p, kind, u, r, first, held) ==
    /\ FreeSlot(p)
    /\ quota > 0
    /\ quota' = quota - 1
    /\ req' = [req EXCEPT ![p] = [kind |-> kind, user_id |-> u, ride_id |-> r]]
    /\ attempt' = [attempt EXCEPT ![p] = 0]
    /\ applied' = [applied EXCEPT ![p] = 0]
    /\ IF is_rider(u)
       THEN /\ pc' = [pc EXCEPT ![p] = "done"]
            /\ result' = [result EXCEPT ![p] = "NotPassenger"]
            /\ local' = [local EXCEPT ![p] = NoLocal]
       ELSE /\ pc' = [pc EXCEPT ![p] = first]
            /\ result' = [result EXCEPT ![p] = "none"]
            /\ local' = [local EXCEPT ![p] = held]
    /\ UNCHANGED <<tables, sinks, now, posted, hist>>

----------------------------------------------------------------------------
(* create_notification and send_email of app/utils.py *)

\* the outcomes of "socketio.emit(...)" with its arguments: the message is
\* sent; reading notification.timestamp, which the commit has expired,
\* fails in the store (an SQLAlchemyError: rollback, return False); emit
\* raises an error that is not an SQLAlchemyError, which create_notification
\* does not catch
EmitOutcomes == {"sent", "unread", "raised"}

\* create_notification, first half: db.session.add(notification) and
\* db.session.commit(); on a persistence error roll back and return False
create_notification_commit(p, user_id, ok) ==
    /\ IF ok
       THEN notifications' = notifications \cup
                {[id |-> NewNotificationId, user_id |-> user_id]}
       ELSE UNCHANGED notifications
    /\ UNCHANGED emitted

\* the notification object the call holds after its commit
Noted(held, user_id) ==
    [held EXCEPT !.note_user = user_id, !.note_id = NewNotificationId]

\* the row of the notification object is still in the table
NoteAlive(p) == \E n \in notifications : n.id = local[p].note_id

\* faulty variant: emits whatever became of the row and of the read
create_notification_emit_always(p, e) ==
    /\ emitted' = [emitted EXCEPT ![local[p].note_user] = @ + 1]
    /\ UNCHANGED notifications

\* create_notification, second half: the arguments of the emit read the
\* expired notification (a row that is gone raises ObjectDeletedError, an
\* SQLAlchemyError), then socketio.emit to the room of user_id
create_notification_emit(p, e) ==
    /\ IF NoteAlive(p) /\ e = "sent"
       THEN emitted' = [emitted EXCEPT ![local[p].note_user] = @ + 1]
       ELSE UNCHANGED emitted
    /\ UNCHANGED notifications

\* the call raises to its caller
EmitRaises(p, e) == NoteAlive(p) /\ e = "raised"

\* send_email(to, subject, template): builds the message and starts the
\* sender thread.  The mails of the model are the booking confirmations of
\* book_ride; the welcome mail of register (app/routes/auth.py) goes to an
\* account that takes no part in the bookings.
send_email(to) == outbox' = [outbox EXCEPT ![to] = @ + 1]

\* the sender thread: mail.send(msg) delivers the message, or raises, which
\* send_async_email logs as a warning
send_async_email(mails) ==
    \E to \in Accounts, sent \in mails :
        /\ outbox[to] > 0
        /\ outbox' = [outbox EXCEPT ![to] = @ - 1]
        /\ emails' = [emails EXCEPT ![to] = IF sent THEN @ + 1 ELSE @]
        /\ UNCHANGED <<tables, notifications, emitted, now, pc, req, attempt, local,
                       result, quota, applied, posted, hist>>

----------------------------------------------------------------------------
(* book_ride *)

\* POST /book_ride/<ride_id>; passenger = User.query.get(user_id)
StartBookOn(p, callers, targets) ==
    \E u \in callers, r \in targets :
        Receive(p, "book", u, r, "book_read", [NoLocal EXCEPT !.gender = genders[u]])

StartBook(p, callers) == StartBookOn(p, callers, RideIds)

\* the head of one pass of the loop: attempt += 1, read the ride fresh,
\* gender check, time check.  The gender check reads passenger.gender only
\* when the ride's preference is not "Any"; after a rollback the passenger
\* object is expired and that read is a SELECT of its own (book_passenger).
BookRead(p) ==
    /\ pc[p] = "book_read"
    /\ LoopContinues(attempt[p])
    /\ attempt' = [attempt EXCEPT ![p] = @ + 1]
    /\ LET r == req[p].ride_id
       IN  IF r \notin DOMAIN rides
           THEN Finish(p, "NotFound")
           ELSE IF rides[r].rider_gender_preference # "Any" /\ local[p].expired
           THEN GoWith(p, "book_passenger", Loaded(local[p], r))
           ELSE IF ~GenderAllowed(rides[r].rider_gender_preference, local[p].gender)
           THEN Finish(p, "PolicyRejected")
           ELSE IF IsCompleted(rides[r], now)
           THEN Finish(p, "RideCompleted")
           ELSE GoWith(p, "book_check", Loaded(local[p], r))
    /\ UNCHANGED <<tables, sinks, now, req, quota, applied, posted, hist>>

\* passenger.gender of the expired passenger object: the row is read again;
\* then the gender check and the time check on the ride this attempt read
BookPassenger(p) ==
    /\ pc[p] = "book_passenger"
    /\ LET g == genders[req[p].user_id]
       IN  IF ~GenderAllowed(local[p].rider_gender_preference, g)
           THEN Finish(p, "PolicyRejected")
           ELSE IF IsCompleted(local[p], now)
           THEN Finish(p, "RideCompleted")
           ELSE GoWith(p, "book_check",
                       [local[p] EXCEPT !.gender = g, !.expired = FALSE])
    /\ UNCHANGED <<tables, sinks, now, req, attempt, quota, applied, posted, hist>>

\* faulty variant: the seat check made before the duplicate check
BookCheckSeatsFirst(p) ==
    /\ pc[p] = "book_check"
    /\ IF IsFull(local[p].seats_available)
       THEN Finish(p, "RideFull")
       ELSE IF HasBooking(req[p].ride_id, req[p].user_id)
       THEN Finish(p, "AlreadyBooked")
       ELSE Goto(p, "book_write")
    /\ UNCHANGED <<tables, sinks, now, req, attempt, quota, applied, posted, hist>>

\* the early duplicate check, then "if ride.seats_available <= 0" on the
\* ride object this attempt has read
BookCheck(p) ==
    /\ pc[p] = "book_check"
    /\ IF HasBooking(req[p].ride_id, req[p].user_id)
       THEN Finish(p, "AlreadyBooked")
       ELSE IF IsFull(local[p].seats_available)
       THEN Finish(p, "RideFull")
       ELSE Goto(p, "book_write")
    /\ UNCHANGED <<tables, sinks, now, req, attempt, quota, applied, posted, hist>>

\* The conditional UPDATE, the INSERT of the booking and the COMMIT.
\* rowcount == 0: rollback, sleep, continue (the loop may end: high contention).
\* IntegrityError on the INSERT: rollback, then the handler looks for the
\* duplicate (book_requery).  The rollback and the commit expire the ride
\* and the passenger.
BookWrite(p) ==
    /\ pc[p] = "book_write"
    /\ LET r == req[p].ride_id
           u == req[p].user_id
           old_version == local[p].version
           new_seats == NewSeats(local[p].seats_available)
           new_version == NewVersion(old_version)
           stale == [local[p] EXCEPT !.expired = TRUE]
       IN  IF ~GuardMatches(r, old_version)
           THEN /\ IF LoopContinues(attempt[p])
                   THEN GoWith(p, "book_read", stale)
                   ELSE Finish(p, "HighContention")
                /\ UNCHANGED <<rides, bookings, hist, applied>>
           ELSE IF UniqueViolation(r, u)
           THEN /\ GoWith(p, "book_requery", stale)
                /\ UNCHANGED <<rides, bookings, hist, applied>>
           ELSE /\ rides' = [rides EXCEPT ![r].seats_available = new_seats,
                                          ![r].version = new_version]
                /\ bookings' = bookings \cup
                       {[id |-> NewBookingId, ride_id |-> r, passenger_id |-> u]}
                /\ hist' = Append(hist, Mutation(p, "book", new_seats, new_version, TRUE))
                /\ applied' = [applied EXCEPT ![p] = @ + 1]
                /\ GoWith(p, "book_notify", stale)
    /\ UNCHANGED <<ratings, messages, genders, sinks, now, req, attempt, quota, posted>>

\* after the IntegrityError: "if Booking.query...first()": already booked;
\* else give up on the last attempt, or sleep and continue
BookRequery(p) ==
    /\ pc[p] = "book_requery"
    /\ IF HasBooking(req[p].ride_id, req[p].user_id)
       THEN Finish(p, "AlreadyBooked")
       ELSE IF attempt[p] >= max_retries
       THEN Finish(p, "ConcurrentUpdates")
       ELSE Goto(p, "book_read")
    /\ UNCHANGED <<tables, sinks, now, req, attempt, quota, applied, posted, hist>>

\* after the commit, the arguments of create_notification: ride.rider_id and
\* ride.destination read the row of the expired ride again; a ride deleted
\* meanwhile raises ObjectDeletedError, which the handler's
\* "except SQLAlchemyError" turns into the generic error
BookNotify(p) ==
    /\ pc[p] = "book_notify"
    /\ LET r == req[p].ride_id
       IN  IF r \in DOMAIN rides
           THEN GoWith(p, "book_persist",
                       [local[p] EXCEPT !.rider_id = rides[r].rider_id,
                                        !.note_user = rides[r].rider_id])
           ELSE Finish(p, "StoreFailure")
    /\ UNCHANGED <<tables, sinks, now, req, attempt, quota, applied, posted, hist>>

\* faulty variant: a notification that was not persisted fails the request
BookPersistPropagates(p, oks) ==
    /\ pc[p] = "book_persist"
    /\ \E ok \in oks :
         /\ create_notification_commit(p, local[p].note_user, ok)
         /\ IF ok
            THEN GoWith(p, "book_emit", Noted(local[p], local[p].note_user))
            ELSE Finish(p, "StoreFailure")
    /\ UNCHANGED <<tables, outbox, emails, now, req, attempt, quota, applied, posted,
                   hist>>

\* create_notification for the owner: the notification's own transaction.
\* oks: what the notification store may answer.
BookPersist(p, oks) ==
    /\ pc[p] = "book_persist"
    /\ \E ok \in oks :
         /\ create_notification_commit(p, local[p].note_user, ok)
         /\ IF ok
            THEN GoWith(p, "book_emit", Noted(local[p], local[p].note_user))
            ELSE Goto(p, "book_mail")
    /\ UNCHANGED <<tables, outbox, emails, now, req, attempt, quota, applied, posted,
                   hist>>

\* create_notification for the owner: the emit.  emits: what the emit may
\* do.  An error the emit raises leaves book_ride through no except clause.
BookEmit(p, emits) ==
    /\ pc[p] = "book_emit"
    /\ \E e \in emits :
         /\ create_notification_emit(p, e)
         /\ IF EmitRaises(p, e)
            THEN Finish(p, "ServerError")
            ELSE Goto(p, "book_mail")
    /\ UNCHANGED <<tables, outbox, emails, now, req, attempt, quota, applied, posted,
                   hist>>

\* render_template('email/booking_confirmation.html', ride=ride) and
\* send_email(passenger.email, ...), then "Ride booked successfully!".  The
\* template is not part of the sources: it may read a column of the ride,
\* which create_notification has expired (a ride deleted meanwhile raises
\* ObjectDeletedError), or none.
BookMail(p) ==
    /\ pc[p] = "book_mail"
    /\ \E reads \in BOOLEAN :
         IF reads /\ req[p].ride_id \notin DOMAIN rides
         THEN Finish(p, "StoreFailure") /\ UNCHANGED outbox
         ELSE send_email(req[p].user_id) /\ Finish(p, "Success")
    /\ UNCHANGED <<tables, notifications, emitted, emails, now, req, attempt, quota,
                   applied, posted, hist>>

\* the positions of book_ride where a statement is sent to the store inside
\* the try block
BookStatements ==
    {"book_read", "book_passenger", "book_check", "book_write", "book_requery",
     "book_notify", "book_mail"}

\* except SQLAlchemyError: a statement of the try block fails in the store;
\* rollback, "An error occurred during booking.", no retry
BookStoreFailure(p) ==
    /\ pc[p] \in BookStatements
    /\ attempt' = [attempt EXCEPT ![p] = IF pc[p] = "book_read" THEN @ + 1 ELSE @]
    /\ Finish(p, "StoreFailure")
    /\ UNCHANGED <<tables, sinks, now, req, quota, applied, posted, hist>>

----------------------------------------------------------------------------
(* cancel_booking *)

\* POST /cancel_booking/<ride_id>
StartCancelOn(p, callers, targets) ==
    \E u \in callers, r \in targets : Receive(p, "cancel", u, r, "cancel_read", NoLocal)

StartCancel(p, callers) == StartCancelOn(p, callers, RideIds)

\* ride = BikeRide.query.get_or_404(ride_id)
CancelRead(p) ==
    /\ pc[p] = "cancel_read"
    /\ LET r == req[p].ride_id
       IN  IF r \notin DOMAIN rides
           THEN Finish(p, "NotFound")
           ELSE GoWith(p, "cancel_check", Loaded(NoLocal, r))
    /\ UNCHANGED <<tables, sinks, now, req, attempt, quota, applied, posted, hist>>

\* booking = Booking.query...first(); the time check on the ride object
\* loaded by CancelRead; "if booking"
CancelCheck(p) ==
    /\ pc[p] = "cancel_check"
    /\ LET r == req[p].ride_id
           found == BookingsOf(r, req[p].user_id)
       IN  IF IsCompleted(local[p], now)
           THEN Finish(p, "RideCompleted")
           ELSE IF found = {}
           THEN Finish(p, "BookingNotFound")
           ELSE GoWith(p, "cancel_commit",
                       [local[p] EXCEPT !.booking_id = (CHOOSE b \in found : TRUE).id])
    /\ UNCHANGED <<tables, sinks, now, req, attempt, quota, applied, posted, hist>>

\* db.session.delete(booking); ride.seats_available + 1; ride.version + 1;
\* commit.  The flush is  UPDATE bike_ride SET seats_available=:s, version=:v
\* WHERE id=:id  and  DELETE FROM booking WHERE id=:booking_id : the values
\* come from the ride object loaded by CancelRead.
CancelCommit(p) ==
    /\ pc[p] = "cancel_commit"
    /\ LET r == req[p].ride_id
           seats == ReleasedSeats(local[p].seats_available)
           version == ReleasedVersion(local[p].version)
       IN  IF r \notin DOMAIN rides
           THEN /\ Finish(p, "StoreFailure")
                /\ UNCHANGED <<rides, bookings, hist, applied>>
           ELSE /\ rides' = [rides EXCEPT ![r].seats_available = seats,
                                          ![r].version = version]
                /\ bookings' = {b \in bookings : b.id # local[p].booking_id}
                /\ hist' = Append(hist, Mutation(p, "cancel", seats, version,
                                    \E b \in bookings' : /\ b.ride_id = r
                                                          /\ b.passenger_id = req[p].user_id))
                /\ applied' = [applied EXCEPT ![p] = @ + 1]
                /\ Goto(p, "cancel_notify")
    /\ UNCHANGED <<ratings, messages, genders, sinks, now, req, attempt, quota, posted>>

\* after the commit, the argument of create_notification: ride.rider_id
\* reads the row of the expired ride again; a ride deleted meanwhile raises
\* ObjectDeletedError (rollback, generic error)
CancelNotify(p) ==
    /\ pc[p] = "cancel_notify"
    /\ LET r == req[p].ride_id
       IN  IF r \in DOMAIN rides
           THEN GoWith(p, "cancel_persist",
                       [local[p] EXCEPT !.rider_id = rides[r].rider_id,
                                        !.note_user = rides[r].rider_id])
           ELSE Finish(p, "StoreFailure")
    /\ UNCHANGED <<tables, sinks, now, req, attempt, quota, applied, posted, hist>>

\* create_notification for the owner: the notification's own transaction;
\* whatever it returns, "Booking cancelled."
CancelPersist(p, oks) ==
    /\ pc[p] = "cancel_persist"
    /\ \E ok \in oks :
         /\ create_notification_commit(p, local[p].note_user, ok)
         /\ IF ok
            THEN GoWith(p, "cancel_emit", Noted(local[p], local[p].note_user))
            ELSE Finish(p, "Cancelled")
    /\ UNCHANGED <<tables, outbox, emails, now, req, attempt, quota, applied, posted,
                   hist>>

\* create_notification for the owner: the emit, then "Booking cancelled."
CancelEmit(p, emits) ==
    /\ pc[p] = "cancel_emit"
    /\ \E e \in emits :
         /\ create_notification_emit(p, e)
         /\ IF EmitRaises(p, e)
            THEN Finish(p, "ServerError")
            ELSE Finish(p, "Cancelled")
    /\ UNCHANGED <<tables, outbox, emails, now, req, attempt, quota, applied, posted,
                   hist>>

\* except SQLAlchemyError: the commit, or the read of the ride after it,
\* fails in the store; rollback, "An error occurred during cancellation."
CancelStoreFailure(p) ==
    /\ pc[p] \in {"cancel_commit", "cancel_notify"}
    /\ Finish(p, "StoreFailure")
    /\ UNCHANGED <<tables, sinks, now, req, attempt, quota, applied, posted, hist>>

----------------------------------------------------------------------------
(* delete_ride *)

\* faulty variant: any rider may delete
IsOwnerAnyRider(ride, u) == is_rider(u)

\* the negation of "if ride.rider_id != session['user_id']"
IsOwner(ride, u) == ride.rider_id = u

\* the rows of ride r in a table
RowsOf(table, r) == {x \in table : x.ride_id = r}

\* POST /delete_ride/<ride_id>: "if not session['is_rider']" ends it at
\* once, and so does a form that does not validate
StartDeleteOn(p, callers, valids, targets) ==
    /\ FreeSlot(p)
    /\ quota > 0
    /\ quota' = quota - 1
    /\ \E u \in callers, r \in targets, valid \in valids :
         /\ req' = [req EXCEPT ![p] = [kind |-> "delete", user_id |-> u, ride_id |-> r]]
         /\ IF ~is_rider(u)
            THEN /\ pc' = [pc EXCEPT ![p] = "done"]
                 /\ result' = [result EXCEPT ![p] = "NotRider"]
            ELSE IF ~valid
            THEN /\ pc' = [pc EXCEPT ![p] = "done"]
                 /\ result' = [result EXCEPT ![p] = "InvalidForm"]
            ELSE /\ pc' = [pc EXCEPT ![p] = "delete_read"]
                 /\ result' = [result EXCEPT ![p] = "none"]
    /\ attempt' = [attempt EXCEPT ![p] = 0]
    /\ applied' = [applied EXCEPT ![p] = 0]
    /\ local' = [local EXCEPT ![p] = NoLocal]
    /\ UNCHANGED <<tables, sinks, now, posted, hist>>

StartDelete(p, callers, valids) == StartDeleteOn(p, callers, valids, RideIds)

\* the ride with its bookings (joinedload: one SELECT), the owner check,
\* the time check
DeleteRead(p) ==
    /\ pc[p] = "delete_read"
    /\ LET r == req[p].ride_id
       IN  IF r \notin DOMAIN rides
           THEN Finish(p, "NotFound")
           ELSE IF ~IsOwner(rides[r], req[p].user_id)
           THEN Finish(p, "NotOwner")
           ELSE IF IsCompleted(rides[r], now)
           THEN Finish(p, "RideCompleted")
           ELSE GoWith(p, "delete_notify",
                       [Loaded(NoLocal, r) EXCEPT !.todo = RowsOf(bookings, r)])
    /\ UNCHANGED <<tables, sinks, now, req, attempt, quota, applied, posted, hist>>

\* the head of one pass of "for booking in ride.bookings", in the order the
\* SELECT returned the rows, which no ORDER BY fixes: "if booking.passenger"
\* and booking.passenger.id.  In the first pass the objects are loaded; a
\* create_notification expires them, so from the second pass on the booking
\* is read again by its id (a row that is gone raises ObjectDeletedError:
\* rollback, generic error).
\* told: the users the request has called create_notification for.
DeleteNotify(p) ==
    /\ pc[p] = "delete_notify"
    /\ \E b \in local[p].todo :
         LET rows == {x \in bookings : x.id = b.id}
             rest == [local[p] EXCEPT !.todo = @ \ {b}]
         IN  IF ~local[p].expired
             THEN GoWith(p, "delete_persist",
                         [rest EXCEPT !.note_user = b.passenger_id,
                                      !.told = Append(@, b.passenger_id)])
             ELSE IF rows = {}
             THEN Finish(p, "StoreFailure")
             ELSE GoWith(p, "delete_refresh",
                         [rest EXCEPT !.note_user = (CHOOSE x \in rows : TRUE).passenger_id])
    /\ UNCHANGED <<tables, sinks, now, req, attempt, quota, applied, posted, hist>>

\* the message of the notification: ride.source and ride.destination read
\* the row of the expired ride again
DeleteRefresh(p) ==
    /\ pc[p] = "delete_refresh"
    /\ IF req[p].ride_id \in DOMAIN rides
       THEN GoWith(p, "delete_persist",
                   [local[p] EXCEPT !.told = Append(@, local[p].note_user)])
       ELSE Finish(p, "StoreFailure")
    /\ UNCHANGED <<tables, sinks, now, req, attempt, quota, applied, posted, hist>>

\* create_notification for the passenger: the notification's own
\* transaction; its commit or rollback expires the ride and the bookings
DeletePersist(p, oks) ==
    /\ pc[p] = "delete_persist"
    /\ \E ok \in oks :
         /\ create_notification_commit(p, local[p].note_user, ok)
         /\ IF ok
            THEN GoWith(p, "delete_emit",
                        [Noted(local[p], local[p].note_user) EXCEPT !.expired = TRUE])
            ELSE GoWith(p, "delete_notify", [local[p] EXCEPT !.expired = TRUE])
    /\ UNCHANGED <<tables, outbox, emails, now, req, attempt, quota, applied, posted,
                   hist>>

\* create_notification for the passenger: the emit, then the next pass
DeleteEmit(p, emits) ==
    /\ pc[p] = "delete_emit"
    /\ \E e \in emits :
         /\ create_notification_emit(p, e)
         /\ IF EmitRaises(p, e)
            THEN Finish(p, "ServerError")
            ELSE Goto(p, "delete_notify")
    /\ UNCHANGED <<tables, outbox, emails, now, req, attempt, quota, applied, posted,
                   hist>>

\* db.session.delete(ride) after the loop: the cascade collects the rows to
\* delete with the ride.  An expired ride is read again (a ride that is gone
\* raises ObjectDeletedError); a bookings collection that is still loaded,
\* being empty, is used as it is.
DeleteLoad(p) ==
    /\ pc[p] = "delete_notify"
    /\ local[p].todo = {}
    /\ IF ~local[p].expired
       THEN GoWith(p, "delete_load_messages", [local[p] EXCEPT !.cascade = {}])
       ELSE IF req[p].ride_id \in DOMAIN rides
       THEN Goto(p, "delete_load_bookings")
       ELSE Finish(p, "StoreFailure")
    /\ UNCHANGED <<tables, sinks, now, req, attempt, quota, applied, posted, hist>>

\* the cascade loads ride.bookings
DeleteLoadBookings(p) ==
    /\ pc[p] = "delete_load_bookings"
    /\ GoWith(p, "delete_load_messages",
              [local[p] EXCEPT !.cascade = {b.id : b \in RowsOf(bookings, req[p].ride_id)}])
    /\ UNCHANGED <<tables, sinks, now, req, attempt, quota, applied, posted, hist>>

\* the cascade loads ride.messages
DeleteLoadMessages(p) ==
    /\ pc[p] = "delete_load_messages"
    /\ GoWith(p, "delete_load_ratings",
              [local[p] EXCEPT !.chats = {m.id : m \in RowsOf(messages, req[p].ride_id)}])
    /\ UNCHANGED <<tables, sinks, now, req, attempt, quota, applied, posted, hist>>

\* the cascade loads ride.ratings
DeleteLoadRatings(p) ==
    /\ pc[p] = "delete_load_ratings"
    /\ GoWith(p, "delete_commit",
              [local[p] EXCEPT !.rated = {x.id : x \in RowsOf(ratings, req[p].ride_id)}])
    /\ UNCHANGED <<tables, sinks, now, req, attempt, quota, applied, posted, hist>>

\* db.session.commit(): DELETE the collected bookings, messages and ratings
\* by id and the ride by id, in one transaction.  The database does not
\* enforce the foreign keys (SQLite without PRAGMA foreign_keys), and a
\* DELETE that matches no row is not an error.
DeleteCommit(p) ==
    /\ pc[p] = "delete_commit"
    /\ LET r == req[p].ride_id
       IN  /\ rides' = [x \in DOMAIN rides \ {r} |-> rides[x]]
           /\ bookings' = {b \in bookings : b.id \notin local[p].cascade}
           /\ messages' = {m \in messages : m.id \notin local[p].chats}
           /\ ratings' = {x \in ratings : x.id \notin local[p].rated}
    /\ Finish(p, "Deleted")
    /\ UNCHANGED <<genders, sinks, now, req, attempt, quota, applied, posted, hist>>

\* except SQLAlchemyError: a statement of the try block fails in the store;
\* rollback, "An error occurred while deleting the ride."
DeleteStoreFailure(p) ==
    /\ \/ pc[p] \in {"delete_refresh", "delete_load_bookings", "delete_load_messages",
                     "delete_load_ratings", "delete_commit"}
       \/ pc[p] = "delete_notify" /\ local[p].expired
    /\ Finish(p, "StoreFailure")
    /\ UNCHANGED <<tables, sinks, now, req, attempt, quota, applied, posted, hist>>

----------------------------------------------------------------------------
(* post_bike_ride *)

\* "if ride_dt_start < datetime.now()" of post_bike_ride
PostTooLate(ride_date, ride_time, ride_end_time, t) ==
    get_ride_datetime(ride_date, ride_time, ride_end_time)[1] < t

\* /post_bike_ride: "if not session['is_rider']" ends it at once; a form
\* that does not validate is rendered again; a start in the past is refused.
\* seats, prefs, dates, times, ends: the values the form may carry.
StartPost(p, callers, seats, prefs, dates, times, ends) ==
    /\ FreeSlot(p)
    /\ quota > 0
    /\ quota' = quota - 1
    /\ \E u \in callers, valid \in BOOLEAN, n \in seats, pref \in prefs,
          d \in dates, t \in times, e \in ends :
         /\ req' = [req EXCEPT ![p] = [kind |-> "post", user_id |-> u, ride_id |-> 0]]
         /\ IF ~is_rider(u)
            THEN Finish(p, "NotRider")
            ELSE IF ~valid
            THEN Finish(p, "InvalidForm")
            ELSE IF PostTooLate(d, t, e, now)
            THEN Finish(p, "PastRide")
            ELSE /\ pc' = [pc EXCEPT ![p] = "post_commit"]
                 /\ result' = [result EXCEPT ![p] = "none"]
                 /\ local' = [local EXCEPT ![p] =
                        [NoLocal EXCEPT
                            !.rider_id = u,
                            !.seats_available = n,
                            !.rider_gender_preference = pref,
                            !.ride_date = d,
                            !.ride_time = t,
                            !.ride_end_time = e]]
    /\ attempt' = [attempt EXCEPT ![p] = 0]
    /\ applied' = [applied EXCEPT ![p] = 0]
    /\ UNCHANGED <<tables, sinks, now, posted, hist>>

\* db.session.add(bike_ride); db.session.commit(): the new row takes the
\* next id of the table and the default version
PostCommit(p) ==
    /\ pc[p] = "post_commit"
    /\ LET id == NewRideId
           ride == NewRide(local[p].rider_id, local[p].seats_available,
                           local[p].rider_gender_preference, local[p])
       IN  /\ rides' = [x \in DOMAIN rides \cup {id} |->
                           IF x = id THEN ride ELSE rides[x]]
           /\ posted' = [x \in DOMAIN posted \cup {id} |->
                           IF x = id THEN local[p].seats_available ELSE posted[x]]
    /\ Finish(p, "Posted")
    /\ UNCHANGED <<bookings, ratings, messages, genders, sinks, now, req, attempt,
                   quota, applied, hist>>

\* except SQLAlchemyError in the commit: rollback, "Failed to post ride."
PostStoreFailure(p) ==
    /\ pc[p] = "post_commit"
    /\ Finish(p, "StoreFailure")
    /\ UNCHANGED <<tables, sinks, now, req, attempt, quota, applied, posted, hist>>

----------------------------------------------------------------------------
(* rate_ride *)

RatingInputs == {0, 3, 6}       \* request.form['rating']
Methods == {"GET", "POST"}

\* faulty variant: rating allowed from the end instant on
RateTooEarlyStrict(ride, t) == ride_dt_end_of(ride) > t

\* "ride_dt_end >= datetime.now()" of rate_ride
RateTooEarly(ride, t) == ride_dt_end_of(ride) >= t

\* if 1 <= rating_value <= 5
ValidRating(v) == 1 <= v /\ v <= 5

NewRatingId == NewId({x.id : x \in ratings})

\* /rate_ride/<ride_id>
StartRate(p, callers) ==
    \E u \in callers, r \in RideIds : Receive(p, "rate", u, r, "rate_read", NoLocal)

\* ride = BikeRide.query.get_or_404(ride_id)
RateRead(p) ==
    /\ pc[p] = "rate_read"
    /\ LET r == req[p].ride_id
       IN  IF r \notin DOMAIN rides
           THEN Finish(p, "NotFound")
           ELSE GoWith(p, "rate_check", Loaded(NoLocal, r))
    /\ UNCHANGED <<tables, sinks, now, req, attempt, quota, applied, posted, hist>>

\* booking = Booking.query...first();
\* if not booking or ride_dt_end >= datetime.now()
RateCheck(p) ==
    /\ pc[p] = "rate_check"
    /\ IF ~HasBooking(req[p].ride_id, req[p].user_id) \/ RateTooEarly(local[p], now)
       THEN Finish(p, "NotRateable")
       ELSE Goto(p, "rate_dup")
    /\ UNCHANGED <<tables, sinks, now, req, attempt, quota, applied, posted, hist>>

\* existing_rating = Rating.query...first()
RateDup(p) ==
    /\ pc[p] = "rate_dup"
    /\ IF RowsOf(ratings, req[p].ride_id) \cap
              {x \in ratings : x.passenger_id = req[p].user_id} # {}
       THEN Finish(p, "AlreadyRated")
       ELSE Goto(p, "rate_submit")
    /\ UNCHANGED <<tables, sinks, now, req, attempt, quota, applied, posted, hist>>

\* except (ValueError, SQLAlchemyError): logger.error, rollback, "Invalid
\* rating or error saving."; the handler goes on, outside any transaction, to
\* render_template with the ride the rollback has expired
RateError(p) == Goto(p, "rate_render")

\* render_template('optimized/rate_ride.html', ride=ride) after the
\* rollback.  The template is not part of the sources: if it reads a column
\* of the ride, that is a SELECT of the expired row, which may fail in the
\* store or find the ride gone (ObjectDeletedError); either leaves rate_ride
\* through no except clause.
RateRender(p) ==
    /\ pc[p] = "rate_render"
    /\ \E reads \in BOOLEAN, ok \in BOOLEAN :
         IF reads /\ (req[p].ride_id \notin DOMAIN rides \/ ~ok)
         THEN Finish(p, "ServerError")
         ELSE Finish(p, "StoreFailure")
    /\ UNCHANGED <<tables, sinks, now, req, attempt, quota, applied, posted, hist>>

\* GET renders the form.  POST: a rating of 1..5 is inserted and committed
\* (the uniqueness constraint of the table may reject it: the except
\* clause); any other value is refused.
RateSubmit(p) ==
    /\ pc[p] = "rate_submit"
    /\ \E method \in Methods, v \in RatingInputs :
         LET r == req[p].ride_id
             u == req[p].user_id
         IN  IF method = "GET"
             THEN Finish(p, "Form") /\ UNCHANGED ratings
             ELSE IF ~ValidRating(v)
             THEN Finish(p, "InvalidRating") /\ UNCHANGED ratings
             ELSE IF \E x \in ratings : x.ride_id = r /\ x.passenger_id = u
             THEN RateError(p) /\ UNCHANGED ratings
             ELSE /\ ratings' = ratings \cup
                        {[id |-> NewRatingId, ride_id |-> r, passenger_id |-> u]}
                  /\ Goto(p, "rate_notify")
    /\ UNCHANGED <<rides, bookings, messages, genders, sinks, now, req, attempt, quota,
                   applied, posted, hist>>

\* after the commit, the argument of create_notification: ride.rider_id
\* reads the row of the expired ride again; a ride deleted meanwhile raises
\* ObjectDeletedError, an SQLAlchemyError: the except clause
RateNotify(p) ==
    /\ pc[p] = "rate_notify"
    /\ LET r == req[p].ride_id
       IN  IF r \in DOMAIN rides
           THEN GoWith(p, "rate_persist",
                       [local[p] EXCEPT !.rider_id = rides[r].rider_id,
                                        !.note_user = rides[r].rider_id])
           ELSE RateError(p)
    /\ UNCHANGED <<tables, sinks, now, req, attempt, quota, applied, posted, hist>>

\* create_notification for the owner: the notification's own transaction;
\* whatever it returns, "Thank you for your rating!"
RatePersist(p, oks) ==
    /\ pc[p] = "rate_persist"
    /\ \E ok \in oks :
         /\ create_notification_commit(p, local[p].note_user, ok)
         /\ IF ok
            THEN GoWith(p, "rate_emit", Noted(local[p], local[p].note_user))
            ELSE Finish(p, "Rated")
    /\ UNCHANGED <<tables, outbox, emails, now, req, attempt, quota, applied, posted,
                   hist>>

\* create_notification for the owner: the emit, then "Thank you for your
\* rating!"
RateEmit(p, emits) ==
    /\ pc[p] = "rate_emit"
    /\ \E e \in emits :
         /\ create_notification_emit(p, e)
         /\ IF EmitRaises(p, e)
            THEN Finish(p, "ServerError")
            ELSE Finish(p, "Rated")
    /\ UNCHANGED <<tables, outbox, emails, now, req, attempt, quota, applied, posted,
                   hist>>

\* the commit of the rating, or the read of the ride after it, fails in the
\* store: the except clause
RateStoreFailure(p) ==
    /\ pc[p] \in {"rate_notify", "rate_submit"}
    /\ RateError(p)
    /\ UNCHANGED <<tables, sinks, now, req, attempt, quota, applied, posted, hist>>

----------------------------------------------------------------------------
(* edit_profile and delete_notification of app/routes/main.py *)

\* a request arrives at a handler of main.py, which loads `held` with its
\* first statement and goes on at `first`, or ends at once with `res`
Arrive(p, kind, u, first, held, res) ==
    /\ FreeSlot(p)
    /\ quota > 0
    /\ quota' = quota - 1
    /\ req' = [req EXCEPT ![p] = [kind |-> kind, user_id |-> u, ride_id |-> 0]]
    /\ attempt' = [attempt EXCEPT ![p] = 0]
    /\ applied' = [applied EXCEPT ![p] = 0]
    /\ IF res = "none"
       THEN /\ pc' = [pc EXCEPT ![p] = first]
            /\ result' = [result EXCEPT ![p] = "none"]
            /\ local' = [local EXCEPT ![p] = held]
       ELSE /\ pc' = [pc EXCEPT ![p] = "done"]
            /\ result' = [result EXCEPT ![p] = res]
            /\ local' = [local EXCEPT ![p] = NoLocal]
    /\ UNCHANGED <<tables, sinks, now, posted, hist>>

\* /profile/edit: user = User.query.get(user_id) loads the row; when the
\* form validates the handler holds the user object and the form's gender;
\* a GET, or a form that does not validate, goes to
\* `elif request.method == 'GET'`, and the module never imports `request`:
\* NameError, the server answers 500
StartEditProfile(p, callers, valids) ==
    \E u \in callers, g \in Genders, valid \in valids :
        Arrive(p, "edit", u, "edit_commit",
               [NoLocal EXCEPT !.gender = genders[u], !.form = g],
               IF valid THEN "none" ELSE "ServerError")

\* user.gender = form.gender.data; db.session.commit(): the UPDATE names
\* the columns whose new value differs from the value the object was loaded
\* with, so gender is written only when the form's value is not the loaded
\* one; the commit expires the user object; flash 'Your profile has been
\* updated!'
EditProfileCommit(p) ==
    /\ pc[p] = "edit_commit"
    /\ genders' = IF local[p].form # local[p].gender
                  THEN [genders EXCEPT ![req[p].user_id] = local[p].form]
                  ELSE genders
    /\ Goto(p, "edit_redirect")
    /\ UNCHANGED <<rides, bookings, ratings, messages, sinks, now, req, attempt, quota,
                   applied, posted, hist>>

\* redirect(url_for('main.profile', username=user.username)): the SELECT
\* of the row the commit expired
EditProfileRedirect(p) ==
    /\ pc[p] = "edit_redirect"
    /\ Finish(p, "Updated")
    /\ UNCHANGED <<tables, sinks, now, req, attempt, quota, applied, posted, hist>>

\* except SQLAlchemyError, raised by the commit or, the profile committed,
\* by the SELECT of user.username: rollback, 'Error updating profile.',
\* then the form is rendered with user.avatar_file, a SELECT of the row
\* the rollback expired, which may fail in its turn
EditProfileStoreFailure(p) ==
    /\ pc[p] \in {"edit_commit", "edit_redirect"}
    /\ \E again \in BOOLEAN :
         Finish(p, IF again THEN "ServerError" ELSE "StoreFailure")
    /\ UNCHANGED <<tables, sinks, now, req, attempt, quota, applied, posted, hist>>

\* the steps of edit_profile after its first statement
edit_profile(p) ==
    EditProfileCommit(p) \/ EditProfileRedirect(p) \/ EditProfileStoreFailure(p)

\* POST /notifications/delete/<notification_id>:
\* Notification.query.filter_by(id=notification_id, user_id=user_id).first();
\* without such a row 'Notification not found', else the handler holds it
StartDeleteNotification(p, callers, ids) ==
    \E u \in callers, id \in ids :
        Arrive(p, "unnotify", u, "unnotify_commit",
               [NoLocal EXCEPT !.note_user = u, !.note_id = id],
               IF [id |-> id, user_id |-> u] \in notifications
               THEN "none" ELSE "NotificationNotFound")

\* db.session.delete(notification); db.session.commit(): DELETE FROM
\* notification WHERE id = :id removes the row that has that id now; a
\* DELETE that matches no row only warns; {'success': True}
DeleteNotificationCommit(p) ==
    /\ pc[p] = "unnotify_commit"
    /\ notifications' = {n \in notifications : n.id # local[p].note_id}
    /\ Finish(p, "Deleted")
    /\ UNCHANGED <<tables, emitted, outbox, emails, now, req, attempt, quota, applied,
                   posted, hist>>

\* except SQLAlchemyError: rollback, 'Database error' (500)
DeleteNotificationStoreFailure(p) ==
    /\ pc[p] = "unnotify_commit"
    /\ Finish(p, "StoreFailure")
    /\ UNCHANGED <<tables, sinks, now, req, attempt, quota, applied, posted, hist>>

\* the steps of delete_notification after its first statement
delete_notification(p) ==
    DeleteNotificationCommit(p) \/ DeleteNotificationStoreFailure(p)

----------------------------------------------------------------------------
(* send_message of app/events.py *)

\* socket event 'send_message': db.session.add(new_msg); db.session.commit()
\* for whatever ride id the event names
handle_send_message(callers, targets) ==
    /\ quota > 0
    /\ quota' = quota - 1
    /\ \E u \in callers, r \in targets :
         messages' = messages \cup {[id |-> NewMessageId, ride_id |-> r]}
    /\ UNCHANGED <<rides, bookings, ratings, genders, sinks, now, pc, req, attempt,
                   local, result, applied, posted, hist>>

----------------------------------------------------------------------------
\* datetime.now() advances
Tick ==
    /\ now + 1 \in Clock
    /\ now' = now + 1
    /\ UNCHANGED <<tables, sinks, pc, req, attempt, local, result, quota, applied,
                   posted, hist>>

----------------------------------------------------------------------------
(* Specifications *)

\* the steps of book_ride on a store that does not fail and rejects no
\* INSERT, the emit sending its message
BookCore(p) ==
    \/ BookRead(p)
    \/ BookCheck(p)
    \/ BookWrite(p)
    \/ BookNotify(p)
    \/ BookPersist(p, {TRUE})
    \/ BookEmit(p, {"sent"})
    \/ BookMail(p)

BookStep(p) == BookCore(p) \/ BookStoreFailure(p)

\* the steps of cancel_booking on a store that does not fail
CancelCore(p) ==
    \/ CancelRead(p)
    \/ CancelCheck(p)
    \/ CancelCommit(p)
    \/ CancelNotify(p)
    \/ CancelPersist(p, {TRUE})
    \/ CancelEmit(p, {"sent"})

CancelStep(p) == CancelCore(p) \/ CancelStoreFailure(p)

\* the users whose requests the behaviours other than SpecBook hear
Regulars == {Rider, 1, 2}

\* no book_ride reads the passenger again for the gender check: on rides for
\* anyone this holds, and BookPassenger is not among the steps
NoPassengerReload == \A p \in Procs : pc[p] # "book_passenger"

(* Spec: two workers serve book_ride and cancel_booking requests of         *)
(* passengers 1 and 2 and of the rider on one ride, posted with             *)
(* 1..MaxSeats seats and perhaps already booked by passenger 1, while the   *)
(* clock advances; the sender threads have not sent their mails yet.        *)
(* Within these bounds no INSERT is rejected (NoRejectedInsert), so         *)
(* BookRequery is not among the steps.                                      *)
Next ==
    \/ \E p \in Procs : StartBook(p, Regulars) \/ BookStep(p) \/ BookPassenger(p)
    \/ \E p \in Procs : StartCancel(p, Regulars) \/ CancelStep(p)
    \/ Tick

Spec == Init /\ [][Next]_vars

NoRejectedInsert == \A p \in Procs : pc[p] # "book_requery"

(* SpecBook: two workers serve book_ride requests only, of every user,      *)
(* while the sender threads deliver the mails.                              *)
NextBook ==
    \/ \E p \in Procs : StartBook(p, Users) \/ BookStep(p) \/ BookPassenger(p)
    \/ send_async_email({TRUE})
    \/ Tick

SpecBook == Init /\ [][NextBook]_vars

(* SpecWide: three workers serve the book_ride requests of passenger 1 and  *)
(* the cancel_booking requests of passengers 1 and 2 on a ride that both    *)
(* have booked, on a store that does not fail, the clock standing still;    *)
(* here an INSERT can be rejected, so BookRequery is among the steps.       *)
InitWide ==
    \E s \in Schedules : Quiescent(MaxSeats, "Any", s, 2, {1, 2, 3}, MaxRequests)

NextWide ==
    \/ \E p \in Procs : StartBook(p, {1}) \/ BookCore(p) \/ BookRequery(p)
    \/ \E p \in Procs : StartCancel(p, {1, 2}) \/ CancelCore(p)

SpecWide == InitWide /\ [][NextWide]_vars

(* SpecRequery: three workers serve one request more than MaxRequests, the  *)
(* book_ride and cancel_booking requests of passenger 1 on a ride that      *)
(* passengers 1 and 2 have booked, on a store that does not fail, the clock *)
(* standing still: enough requests for a cancellation between a rejected    *)
(* INSERT and the look for the duplicate.                                   *)
InitRequery ==
    \E s \in Schedules : Quiescent(MaxSeats, "Any", s, 2, {1, 2, 3}, MaxRequests + 1)

NextRequery ==
    \/ \E p \in Procs : StartBook(p, {1}) \/ BookCore(p) \/ BookRequery(p)
    \/ \E p \in Procs : StartCancel(p, {1}) \/ CancelCore(p)

SpecRequery == InitRequery /\ [][NextRequery]_vars

(* SpecBusy: two workers serve one request more than MaxRequests, the       *)
(* book_ride requests of passengers 1 and 2 and the cancel_booking requests *)
(* of passenger 1, who has booked, on a store that does not fail, the clock *)
(* standing still: enough writers to make one reservation lose every        *)
(* attempt, and enough requests for a rejected INSERT.                      *)
InitBusy ==
    \E n \in 1..MaxSeats, s \in Schedules :
        Quiescent(n, "Any", s, 1, {1, 2}, MaxRequests + 1)

NextBusy ==
    \/ \E p \in Procs : StartBook(p, {1, 2}) \/ BookCore(p) \/ BookRequery(p)
    \/ \E p \in Procs : StartCancel(p, {1}) \/ CancelCore(p)

SpecBusy == InitBusy /\ [][NextBusy]_vars

\* the steps of delete_ride; the store may fail in its statements
DeleteStep(p, oks) ==
    \/ DeleteRead(p)
    \/ DeleteNotify(p)
    \/ DeleteRefresh(p)
    \/ DeletePersist(p, oks)
    \/ DeleteEmit(p, {"sent"})
    \/ DeleteLoad(p)
    \/ DeleteLoadBookings(p)
    \/ DeleteLoadMessages(p)
    \/ DeleteLoadRatings(p)
    \/ DeleteCommit(p)
    \/ DeleteStoreFailure(p)

\* the steps of post_bike_ride; the store may fail in its commit
PostStep(p) == PostCommit(p) \/ PostStoreFailure(p)

\* the steps of rate_ride; the store may fail in its commit
RateStep(p) ==
    \/ RateRead(p)
    \/ RateCheck(p)
    \/ RateDup(p)
    \/ RateSubmit(p)
    \/ RateNotify(p)
    \/ RatePersist(p, {TRUE})
    \/ RateEmit(p, {"sent"})
    \/ RateStoreFailure(p)
    \/ RateRender(p)

\* the rides posted while a behaviour runs leave on day 0 at a time of
\* LaterTimes and have no end time
LaterTimes == {0, 1}

(* SpecOwner: two workers serve delete_ride requests of the owner, of the   *)
(* other rider and of passenger 1, post_bike_ride requests of the riders    *)
(* and of passenger 1, with book_ride and cancel_booking requests of        *)
(* passengers 1 and 2 and chat messages, on a ride for anyone or for women, *)
(* while the clock advances.                                                *)
InitOwner ==
    \E n \in 1..MaxSeats, pref \in {"Any", "Female"}, s \in Schedules, k \in {0, 1} :
        Quiescent(n, pref, s, k, {1, 2}, MaxRequests - 1)

NextOwner ==
    \/ \E p \in Procs : StartDelete(p, {Rider, 1, OtherRider}, BOOLEAN)
    \/ \E p \in Procs : DeleteStep(p, {TRUE})
    \/ \E p \in Procs : StartPost(p, {Rider, 1, OtherRider}, {1}, {"Any"}, {0},
                                  LaterTimes, {NoTime})
    \/ \E p \in Procs : PostStep(p)
    \/ \E p \in Procs : StartBook(p, {1, 2}) \/ BookCore(p) \/ BookPassenger(p)
    \/ \E p \in Procs : StartCancel(p, {1}) \/ CancelCore(p)
    \/ handle_send_message({1}, RideIds)
    \/ send_async_email({TRUE})
    \/ Tick

SpecOwner == InitOwner /\ [][NextOwner]_vars

\* the schedules a ride can be posted with on days 0 and 1
Dates == {0, 1}
WideSchedules ==
    {[ride_date |-> d, ride_time |-> t, ride_end_time |-> e] :
        d \in Dates, t \in TimesOfDay, e \in {NoTime} \cup {<<x>> : x \in TimesOfDay}}

\* the instants of days 0, 1 and 2
Instants == 0..(3 * DayLen - 1)

\* datetime.now() advances through three days
Pass ==
    /\ now + 1 \in Instants
    /\ now' = now + 1
    /\ UNCHANGED <<tables, sinks, pc, req, attempt, local, result, quota, applied,
                   posted, hist>>

(* SpecTime: one worker serves requests of every kind on a ride of any      *)
(* schedule, which passenger 1 has booked, while three days pass.           *)
InitTime ==
    \E s \in WideSchedules : Quiescent(MaxSeats, "Any", s, 1, {1}, MaxRequests - 2)

NextTime ==
    \/ \E p \in Procs : StartBook(p, {2}) \/ BookCore(p)
    \/ \E p \in Procs : StartCancel(p, {1}) \/ CancelCore(p)
    \/ \E p \in Procs : StartDelete(p, {Rider}, {TRUE}) \/ DeleteStep(p, {TRUE})
    \/ \E p \in Procs : StartRate(p, {1}) \/ RateStep(p)
    \/ send_async_email({TRUE})
    \/ Pass

SpecTime == InitTime /\ [][NextTime]_vars

(* SpecSink: two workers serve book_ride and cancel_booking requests of     *)
(* passengers 1 and 2 while the notification store, the emit and the mail   *)
(* server may fail and the owner sends delete_notification requests; the    *)
(* store of the rides and bookings does not fail, and the clock stands      *)
(* still.                                                                   *)
InitSink ==
    \E n \in 1..MaxSeats, s \in Schedules, k \in {0, 1} :
        Quiescent(n, "Any", s, k, {1, 2}, MaxRequests - 1)

NextSink ==
    \/ \E p \in Procs : StartBook(p, {1, 2})
    \/ \E p \in Procs : BookRead(p) \/ BookCheck(p) \/ BookWrite(p) \/ BookNotify(p)
    \/ \E p \in Procs : BookPersist(p, BOOLEAN) \/ BookEmit(p, EmitOutcomes)
    \/ \E p \in Procs : BookMail(p)
    \/ \E p \in Procs : StartCancel(p, {1, 2})
    \/ \E p \in Procs : CancelRead(p) \/ CancelCheck(p) \/ CancelCommit(p)
    \/ \E p \in Procs : CancelNotify(p)
    \/ \E p \in Procs : CancelPersist(p, BOOLEAN) \/ CancelEmit(p, EmitOutcomes)
    \/ \E p \in Procs : StartDeleteNotification(p, {Rider}, {1, 2})
    \/ \E p \in Procs : delete_notification(p)
    \/ send_async_email(BOOLEAN)

SpecSink == InitSink /\ [][NextSink]_vars

(* SpecTwo: two workers serve book_ride requests of passengers 1 and 2,     *)
(* cancel_booking requests of passenger 1 and delete_ride requests of the   *)
(* owner on two rides, the first of which passenger 1 has booked; the clock *)
(* stands still.                                                            *)
InitTwo ==
    \E n \in 1..MaxSeats, s \in Schedules :
        QuiescentOn(TwoRides, n, "Any", s, 1, {1, 2}, MaxRequests - 1)

NextTwo ==
    \/ \E p \in Procs : StartBookOn(p, {1, 2}, TwoRides) \/ BookCore(p)
    \/ \E p \in Procs : StartCancelOn(p, {1}, TwoRides) \/ CancelCore(p)
    \/ \E p \in Procs : StartDeleteOn(p, {Rider}, {TRUE}, TwoRides)
    \/ \E p \in Procs : DeleteStep(p, {TRUE})
    \/ send_async_email({TRUE})

SpecTwo == InitTwo /\ [][NextTwo]_vars

(* SpecRate: two workers serve rate_ride requests of passengers 1 and 2 and *)
(* cancel_booking requests of passenger 1 on a ride that passenger 1 has    *)
(* booked, while the clock passes the end of the ride.                      *)
InitRate ==
    \E n \in 1..MaxSeats, s \in Schedules :
        Quiescent(n, "Any", s, 1, {1, 2}, MaxRequests - 1)

NextRate ==
    \/ \E p \in Procs : StartRate(p, {1, 2}) \/ RateStep(p)
    \/ \E p \in Procs : StartCancel(p, {1}) \/ CancelCore(p)
    \/ Tick

SpecRate == InitRate /\ [][NextRate]_vars

(* SpecProfile: two workers serve the book_ride and edit_profile requests   *)
(* of passengers 1 and 2 on a ride for anyone, for men or for women; the    *)
(* clock stands still.                                                      *)
InitProfile ==
    \E n \in 1..MaxSeats, pref \in Preferences, s \in Schedules :
        Quiescent(n, pref, s, 0, {1, 2}, MaxRequests)

NextProfile ==
    \/ \E p \in Procs : StartBook(p, {1, 2}) \/ BookCore(p) \/ BookPassenger(p)
    \/ \E p \in Procs : StartEditProfile(p, {1, 2}, BOOLEAN) \/ edit_profile(p)
    \/ send_async_email({TRUE})

SpecProfile == InitProfile /\ [][NextProfile]_vars

(* SpecNote: two workers serve delete_ride requests of the owner, whose     *)
(* ride passengers 1 and 2 have booked, and delete_notification requests of *)
(* the owner and of passenger 1 for the notifications with ids 1 and 2; the *)
(* clock stands still.                                                      *)
InitNote ==
    \E s \in Schedules : Quiescent(MaxSeats, "Any", s, 2, {1, 2}, MaxRequests - 1)

NextNote ==
    \/ \E p \in Procs : StartDelete(p, {Rider}, {TRUE}) \/ DeleteStep(p, {TRUE})
    \/ \E p \in Procs : StartDeleteNotification(p, {Rider, 1}, {1, 2})
    \/ \E p \in Procs : delete_notification(p)

SpecNote == InitNote /\ [][NextNote]_vars

----------------------------------------------------------------------------
(* Properties *)

\* the committed reservations of ride r, as positions of the history
BookEntries(r) ==
    {i \in 1..Len(hist) : hist[i].kind = "book" /\ hist[i].ride_id = r}

\* ride r is active now
Active(r) == r \in DOMAIN rides /\ ~IsCompleted(rides[r], now)

\* a step of request p that leaves its position
Leaves(p, where) == pc[p] = where /\ pc'[p] # where

\* the request of slot p ends in this step, with this outcome
Ends(p, res) == pc[p] # "done" /\ pc'[p] = "done" /\ result'[p] = res

\* a step in which the store fails request p
StoreFails(p) == pc[p] # "done" /\ pc'[p] = "done" /\ result'[p] = "StoreFailure"

\* C1: with book_ride requests only, the reservations committed on a ride
\* never outnumber the seats it was posted with, and seats_available is
\* never negative.
C1_NoOverbooking ==
    \A r \in DOMAIN rides :
        /\ Cardinality(BookEntries(r)) <= posted[r]
        /\ rides[r].seats_available >= 0

\* C1 witness: every seat of a MaxSeats ride is taken and a reservation that
\* lost a race has come back on a later attempt to find the ride full.
C1_Witness ==
    /\ posted[1] = MaxSeats
    /\ Cardinality(BookEntries(1)) = MaxSeats
    /\ rides[1].seats_available = 0
    /\ \E p \in Procs : result[p] = "RideFull" /\ attempt[p] >= 2

\* C2 (as claimed): under book_ride and cancel_booking requests,
\* 0 <= seats_available <= the seats the ride was posted with.
C2_SeatsWithinCapacity ==
    \A r \in DOMAIN rides :
        rides[r].seats_available >= 0 /\ rides[r].seats_available <= posted[r]

\* C3 (as claimed): every committed seat mutation leaves the version one
\* above the version committed before it, so the version is its initial
\* value plus the number of committed mutations.
C3_VersionStepsByOne ==
    /\ \A i \in 1..Len(hist) : hist[i].post_version = hist[i].pre_version + 1
    /\ \A r \in DOMAIN rides : rides[r].version = InitialVersion + Len(hist)

\* C4 (as claimed): the committed reservations of a ride observed strictly
\* increasing versions, in commit order.
C4_ReservationsOrderedByVersion ==
    \A i, j \in BookEntries(1) : i < j => hist[i].observed < hist[j].observed

\* C5: there is at most one booking per (ride, passenger).
C5_OneBookingPerPair ==
    \A b1, b2 \in bookings :
        (b1.ride_id = b2.ride_id /\ b1.passenger_id = b2.passenger_id) => b1 = b2

\* C5 witness: a reservation passed the early duplicate check, its
\* conditional write matched, and its INSERT was rejected by the constraint.
C5_Witness ==
    \E p \in Procs :
        /\ pc[p] = "book_requery"
        /\ Cardinality(BookingsOf(req[p].ride_id, req[p].user_id)) = 1

\* C6: a book_ride call that runs, undisturbed, after the passenger's booking
\* was committed ends on its first attempt as AlreadyBooked, leaves the ride
\* and the bookings as they are, and the pair has exactly one booking (the
\* store answering the call's statements).
C6_SecondBookingIsNoOp ==
    [][\A p \in Procs :
         ( /\ pc[p] = "book_check"
           /\ attempt[p] = 1
           /\ local[p].read_at = Len(hist)
           /\ BookingsOf(req[p].ride_id, req[p].user_id) # {}
           /\ pc'[p] # pc[p]
           /\ ~StoreFails(p) )
         => ( /\ pc'[p] = "done"
              /\ result'[p] = "AlreadyBooked"
              /\ applied'[p] = 0
              /\ rides' = rides
              /\ bookings' = bookings
              /\ Cardinality(BookingsOf(req[p].ride_id, req[p].user_id)) = 1 )
      ]_vars

\* C6 witness: passenger 2 booked by a first call, and a second call of
\* passenger 2 has ended AlreadyBooked on its first attempt.
C6_Witness ==
    \E p \in Procs :
        /\ req[p].kind = "book" /\ req[p].user_id = 2
        /\ result[p] = "AlreadyBooked" /\ attempt[p] = 1
        /\ Len(hist) >= 1
        /\ hist[Len(hist)].kind = "book" /\ hist[Len(hist)].user_id = 2
        /\ Cardinality(BookingsOf(1, 2)) = 1

\* position i of the history is a reservation that read the state it wrote
\* over, and position i+1 is the same passenger's cancellation, which read
\* the ride after that reservation: a reserve and a release in sequence
RoundTrip(i) ==
    /\ i >= 1 /\ i + 1 <= Len(hist)
    /\ hist[i].kind = "book" /\ hist[i].read_at = i - 1
    /\ hist[i + 1].kind = "cancel" /\ hist[i + 1].read_at = i
    /\ hist[i + 1].user_id = hist[i].user_id
    /\ hist[i + 1].ride_id = hist[i].ride_id

\* C7: a reservation followed by the same passenger's cancellation, with no
\* other mutation of the ride in between, leaves seats_available at its
\* value before the reservation, the version 2 higher, and no booking.
C7_RoundTrip ==
    \A i \in 1..Len(hist) :
        RoundTrip(i) =>
            /\ hist[i + 1].post_seats = hist[i].pre_seats
            /\ hist[i + 1].post_version = hist[i].pre_version + 2
            /\ ~hist[i + 1].has_booking

\* C7 witness: passenger 2 reserved and then cancelled, and the cancellation
\* is the last mutation of the ride.
C7_Witness ==
    /\ Len(hist) >= 2
    /\ RoundTrip(Len(hist) - 1)
    /\ hist[Len(hist)].user_id = 2
    /\ rides[1].seats_available = hist[Len(hist) - 1].pre_seats
    /\ \E p \in Procs : result[p] = "Cancelled"

\* C8: an attempt that reaches the seat check (the ride exists, the filter
\* admits the passenger, the ride is active, the passenger has no booking)
\* with seats_available = 0 ends the call as RideFull and changes neither the
\* ride nor the bookings; and no reservation commits on a ride without seats.
C8_FullRideRejects ==
    [][ /\ \A p \in Procs :
             ( /\ pc[p] = "book_check"
               /\ local[p].seats_available = 0
               /\ BookingsOf(req[p].ride_id, req[p].user_id) = {}
               /\ pc'[p] # pc[p]
               /\ ~StoreFails(p) )
             => ( /\ pc'[p] = "done"
                  /\ result'[p] = "RideFull"
                  /\ rides' = rides
                  /\ bookings' = bookings )
        /\ \A p \in Procs :
             ( /\ req[p].kind = "book"
               /\ applied'[p] > applied[p] )
             => rides[req[p].ride_id].seats_available > 0
      ]_vars

\* C8 witness: a reservation found no seat left on a retry.
C8_Witness ==
    \E p \in Procs :
        /\ result[p] = "RideFull" /\ attempt[p] >= 2
        /\ rides[1].seats_available = 0
        /\ BookingsOf(1, req[p].user_id) = {}

\* the two workers have each served one reservation, of two distinct
\* passengers the filter admits who held no booking, on a ride that had one
\* seat left (the seats it was posted with less the bookings of others) and
\* is still active; the store did not fail
ScenarioA ==
    /\ quota = MaxRequests - 3
    /\ pc[1] = "done" /\ pc[2] = "done"
    /\ req[1].kind = "book" /\ req[2].kind = "book"
    /\ req[1].user_id # req[2].user_id
    /\ Active(1)
    /\ posted[1] - Cardinality({b \in bookings : b.ride_id = 1 /\
            b.passenger_id \notin {req[1].user_id, req[2].user_id}}) = 1
    /\ \A p \in {1, 2} :
         /\ ~is_rider(req[p].user_id)
         /\ GenderAllowed(rides[1].rider_gender_preference, genders[req[p].user_id])
         /\ Cardinality(BookingsOf(1, req[p].user_id)) = applied[p]
         /\ result[p] # "StoreFailure"

\* C9: in scenario A exactly one reservation succeeds and the other fails
\* as RideFull.
C9_ScenarioA ==
    ScenarioA =>
        \E p, q \in {1, 2} :
            /\ p # q
            /\ result[p] = "Success" /\ applied[p] = 1
            /\ result[q] = "RideFull" /\ applied[q] = 0

\* C9 witness: scenario A, and the loser read the ride before the winner
\* committed, lost the conditional write and found the ride full on retry.
C9_Witness ==
    /\ ScenarioA
    /\ \E p \in {1, 2} : result[p] = "RideFull" /\ attempt[p] = 2

\* how far a request has come; every step of book_ride raises it
PcRank(where) ==
    CASE where = "book_read" -> 0
      [] where = "book_passenger" -> 1
      [] where = "book_check" -> 2
      [] where = "book_write" -> 3
      [] where = "book_requery" -> 4
      [] where = "book_notify" -> 5
      [] where = "book_persist" -> 6
      [] where = "book_emit" -> 7
      [] where = "book_mail" -> 8
      [] OTHER -> 9
\* the positions of book_ride after the head of an attempt
BookBody ==
    {"book_passenger", "book_check", "book_write", "book_requery", "book_notify",
     "book_persist", "book_emit", "book_mail"}
Rank(where, a) ==
    IF where = "book_read" THEN 10 * (a + 1)
    ELSE IF where \in BookBody
    THEN 10 * a + PcRank(where)
    ELSE 10 * (max_retries + 1) + PcRank(where)

\* C10: a book_ride call makes at most max_retries attempts, every step
\* brings it nearer its end, and it ends as HighContention only after
\* max_retries attempts none of which committed a write.
C10_BoundedRetries ==
    [][\A p \in Procs :
         /\ attempt'[p] <= max_retries
         /\ (pc'[p] = "done" /\ result'[p] = "HighContention")
               => (attempt'[p] = max_retries /\ applied'[p] = 0)
         /\ ( /\ pc[p] \in {"book_read"} \cup BookBody
              /\ <<pc[p], attempt[p]>> # <<pc'[p], attempt'[p]>> )
               => Rank(pc'[p], attempt'[p]) > Rank(pc[p], attempt[p])
      ]_vars

\* C10 witness: a reservation lost max_retries conditional writes in a row.
C10_Witness ==
    \E p \in Procs :
        /\ pc[p] = "done" /\ result[p] = "HighContention"
        /\ attempt[p] = max_retries

\* C11: every attempt of book_ride that the store answers reads the ride
\* afresh and evaluates the five preconditions on that read, in the order of
\* the code (the gender of a passenger object that a rollback has expired
\* being read again); the ride object is not replaced between the read and
\* the conditional write, whose guard therefore uses the version of the same
\* attempt; and the attempt counter moves only at the head of an attempt.
C11_FreshReadEachAttempt ==
    [][\A p \in Procs :
         LET r == req[p].ride_id
             u == req[p].user_id
         IN
         /\ Leaves(p, "book_read") => attempt'[p] = attempt[p] + 1
         /\ (Leaves(p, "book_read") /\ ~StoreFails(p)) =>
              IF r \notin DOMAIN rides
              THEN pc'[p] = "done" /\ result'[p] = "NotFound"
              ELSE IF rides[r].rider_gender_preference # "Any" /\ local[p].expired
              THEN /\ pc'[p] = "book_passenger"
                   /\ local'[p].seats_available = rides[r].seats_available
                   /\ local'[p].version = rides[r].version
                   /\ local'[p].read_at = Len(hist)
              ELSE IF rides[r].rider_gender_preference \notin {"Any", local[p].gender}
              THEN pc'[p] = "done" /\ result'[p] = "PolicyRejected"
              ELSE IF now > ride_dt_end_of(rides[r])
              THEN pc'[p] = "done" /\ result'[p] = "RideCompleted"
              ELSE /\ pc'[p] = "book_check"
                   /\ local'[p].seats_available = rides[r].seats_available
                   /\ local'[p].version = rides[r].version
                   /\ local'[p].read_at = Len(hist)
         /\ (Leaves(p, "book_passenger") /\ ~StoreFails(p)) =>
              IF local[p].rider_gender_preference # genders[u]
              THEN pc'[p] = "done" /\ result'[p] = "PolicyRejected"
              ELSE IF now > ride_dt_end_of(local[p])
              THEN pc'[p] = "done" /\ result'[p] = "RideCompleted"
              ELSE /\ pc'[p] = "book_check"
                   /\ local'[p].seats_available = local[p].seats_available
                   /\ local'[p].version = local[p].version
                   /\ local'[p].read_at = local[p].read_at
         /\ (Leaves(p, "book_check") /\ ~StoreFails(p)) =>
              /\ attempt'[p] = attempt[p]
              /\ IF BookingsOf(r, u) # {}
                 THEN pc'[p] = "done" /\ result'[p] = "AlreadyBooked"
                 ELSE IF local[p].seats_available <= 0
                 THEN pc'[p] = "done" /\ result'[p] = "RideFull"
                 ELSE pc'[p] = "book_write" /\ local'[p] = local[p]
         /\ (req[p].kind = "book" /\ applied'[p] > applied[p]) =>
              /\ pc[p] = "book_write"
              /\ rides[r].version = local[p].version
              /\ rides'[r].version = local[p].version + 1
              /\ rides'[r].seats_available = local[p].seats_available - 1
         /\ pc[p] \in BookBody => attempt'[p] = attempt[p]
      ]_vars

\* C11 witness: a reservation lost a race, and on its next attempt found
\* that the ride had completed meanwhile.
C11_Witness ==
    \E p \in Procs :
        /\ req[p].kind = "book" /\ pc[p] = "done"
        /\ result[p] = "RideCompleted" /\ attempt[p] >= 2

C13_StoreFailureAborts ==
    [][\A p \in Procs :
         (req[p].kind = "book" /\ StoreFails(p)) =>
              /\ applied'[p] = 0
              /\ rides' = rides /\ bookings' = bookings /\ hist' = hist
      ]_vars

\* C14: cancel_booking on a ride that is completed (now > end instant) ends
\* as RideCompleted and changes neither the ride, the bookings nor the
\* notifications, whether or not the passenger has a booking.
C14_CancelCompletedRejected ==
    [][\A p \in Procs :
         ( /\ Leaves(p, "cancel_check")
           /\ req[p].ride_id \in DOMAIN rides
           /\ now > ride_dt_end_of(rides[req[p].ride_id]) )
         => ( /\ pc'[p] = "done"
              /\ result'[p] = "RideCompleted"
              /\ rides' = rides /\ bookings' = bookings /\ hist' = hist
              /\ notifications' = notifications /\ emitted' = emitted )
      ]_vars

\* C14 witness: a passenger who holds a booking was refused the cancellation
\* of a completed ride.
C14_Witness ==
    \E p \in Procs :
        /\ req[p].kind = "cancel" /\ pc[p] = "done"
        /\ result[p] = "RideCompleted"
        /\ BookingsOf(req[p].ride_id, req[p].user_id) # {}
        /\ now > ride_dt_end_of(rides[req[p].ride_id])

\* C15 (as claimed): the commit of a cancel_booking deletes the passenger's
\* booking and raises seats_available and version by 1 each, in one step;
\* a cancel_booking that ends otherwise changes nothing and notifies nobody.
C15_CancelAllOrNothing ==
    [][\A p \in Procs :
         LET r == req[p].ride_id
             u == req[p].user_id
         IN  req[p].kind = "cancel" =>
               /\ applied'[p] > applied[p] =>
                    /\ BookingsOf(r, u) # {}
                    /\ bookings' = bookings \ BookingsOf(r, u)
                    /\ rides'[r].seats_available = rides[r].seats_available + 1
                    /\ rides'[r].version = rides[r].version + 1
               /\ ( /\ pc[p] # "done" /\ pc'[p] = "done"
                    /\ result'[p] # "Cancelled" ) =>
                    /\ rides' = rides /\ bookings' = bookings
                    /\ notifications' = notifications /\ emitted' = emitted
      ]_vars

\* the end instant the rule of the specification gives a schedule
WindowEnd(d, t, e) ==
    IF e = NoTime THEN d * DayLen + t
    ELSE IF e[1] > t THEN d * DayLen + e[1]
    ELSE (d + 1) * DayLen + e[1]

\* the ride that leaves two hours before midnight of day 0 and ends one hour
\* after it
Overnight(ride) ==
    /\ ride.ride_date = 0
    /\ ride.ride_time = DayLen - 2
    /\ ride.ride_end_time = <<1>>

\* C16: get_ride_datetime gives the start instant date-at-start-time and the
\* end instant: the start when there is no end time, date-at-end-time when
\* the end time is after the start time, and the next day at the end time
\* otherwise; the end is never before the start; the overnight ride is
\* active one hour before midnight and completed two hours after it.
C16_ActiveWindow ==
    \A r \in DOMAIN rides :
        LET ride == rides[r]
            w == get_ride_datetime(ride.ride_date, ride.ride_time, ride.ride_end_time)
        IN  /\ w[1] = ride.ride_date * DayLen + ride.ride_time
            /\ w[2] = WindowEnd(ride.ride_date, ride.ride_time, ride.ride_end_time)
            /\ w[2] >= w[1]
            /\ Overnight(ride) =>
                 /\ ~IsCompleted(ride, DayLen - 1)
                 /\ IsCompleted(ride, DayLen + 2)
                 /\ \A p \in Procs :
                      (pc[p] = "done" /\ result[p] = "RideCompleted") => now > DayLen + 1

\* C16 witness: on the overnight ride passenger 2 booked before the end
\* instant, and two hours after midnight a request was refused as completed.
C16_Witness ==
    /\ 1 \in DOMAIN rides /\ Overnight(rides[1])
    /\ now = DayLen + 2
    /\ BookingsOf(1, 2) # {}
    /\ \E p \in Procs : pc[p] = "done" /\ result[p] = "RideCompleted"

\* C17: the time checks agree: book_ride, cancel_booking and delete_ride are
\* refused as completed exactly when now > end instant, and rate_ride, for a
\* passenger with a booking, is refused exactly when now <= end instant.
C17_OneTimePredicate ==
    [][\A p \in Procs :
         LET r == req[p].ride_id
             u == req[p].user_id
         IN
         /\ ( /\ Leaves(p, "book_read") /\ r \in DOMAIN rides
              /\ rides[r].rider_gender_preference \in {"Any", local[p].gender}
              /\ pc'[p] # "book_passenger" ) =>
                ((pc'[p] = "done" /\ result'[p] = "RideCompleted")
                    <=> now > ride_dt_end_of(rides[r]))
         /\ Leaves(p, "cancel_check") =>
                ((pc'[p] = "done" /\ result'[p] = "RideCompleted")
                    <=> now > ride_dt_end_of(local[p]))
         /\ ( /\ Leaves(p, "delete_read") /\ r \in DOMAIN rides
              /\ rides[r].rider_id = u ) =>
                ((pc'[p] = "done" /\ result'[p] = "RideCompleted")
                    <=> now > ride_dt_end_of(rides[r]))
         /\ (Leaves(p, "rate_check") /\ BookingsOf(r, u) # {}) =>
                ((pc'[p] = "done" /\ result'[p] = "NotRateable")
                    <=> now <= ride_dt_end_of(local[p]))
      ]_vars

\* C17 witness: at the end instant itself a passenger with a booking was
\* refused the rating.
C17_Witness ==
    \E p \in Procs :
        /\ req[p].kind = "rate" /\ pc[p] = "done"
        /\ result[p] = "NotRateable"
        /\ req[p].ride_id \in DOMAIN rides
        /\ BookingsOf(req[p].ride_id, req[p].user_id) # {}
        /\ now = ride_dt_end_of(rides[req[p].ride_id])
        /\ now > 0

\* request p takes a step
Steps(p) == pc'[p] # pc[p] \/ local'[p] # local[p]

\* C18 (as claimed): a notification is persisted or emitted only by a
\* request whose write has committed: the owner's after the commit of the
\* reservation or of the release, a passenger's "ride was cancelled" after
\* the commit of the deletion.
C18_NotifyAfterCommit ==
    [][\A u \in Accounts :
         (Notified(u)' > Notified(u) \/ emitted'[u] > emitted[u]) =>
           \E p \in Procs :
              /\ Steps(p)
              /\ \/ /\ pc[p] \in {"book_persist", "book_emit", "cancel_persist",
                                    "cancel_emit"}
                    /\ u = local[p].rider_id
                    /\ applied[p] >= 1
                 \/ /\ req[p].kind = "delete"
                    /\ u \in Passengers
                    /\ req[p].ride_id \notin DOMAIN rides
      ]_vars

\* C19 (as claimed): the step that removes a ride removes every booking of
\* the ride, so no booking of a ride outlives it, and a delete_ride whose
\* commit fails leaves the ride and the bookings as they were.
C19_CascadeAtomic ==
    [][ /\ \A r \in RideIds :
             (r \in DOMAIN rides /\ r \notin DOMAIN rides') =>
                  RowsOf(bookings', r) = {}
        /\ \A p \in Procs :
             (Leaves(p, "delete_commit") /\ result'[p] = "StoreFailure") =>
                  (rides' = rides /\ bookings' = bookings)
      ]_vars

\* C20 (as claimed): delete_ride changes state only when the caller is the
\* owner of the ride and the ride is not completed: a request that finds, at
\* its checks, a ride of another user or a ride whose end instant has passed
\* ends there with the ride, the bookings and the notifications unchanged;
\* and every step of a delete_ride that changes the rides, the bookings or
\* the notifications acts on a ride that is there, that the caller owns and
\* that is not completed.
C20_OnlyOwnerDeletes ==
    [][\A p \in Procs :
         LET r == req[p].ride_id
             u == req[p].user_id
             Same == /\ rides' = rides /\ bookings' = bookings
                     /\ notifications' = notifications /\ emitted' = emitted
         IN
         /\ ( /\ Leaves(p, "delete_read") /\ r \in DOMAIN rides
              /\ (rides[r].rider_id # u \/ now > ride_dt_end_of(rides[r])) ) =>
                /\ pc'[p] = "done"
                /\ result'[p] = IF rides[r].rider_id # u THEN "NotOwner"
                                ELSE "RideCompleted"
                /\ Same
         /\ (req'[p].kind = "delete" /\ pc'[p] # "done" /\ pc'[p] # "idle") =>
                is_rider(req'[p].user_id)
         /\ (req[p].kind = "delete" /\ Steps(p) /\ ~Same) =>
                /\ r \in DOMAIN rides
                /\ rides[r].rider_id = u
                /\ now <= ride_dt_end_of(rides[r])
      ]_vars

\* a step of the sender threads
Delivers == outbox' # outbox /\ pc' = pc

\* C21: when, after the commit of a reservation or of a cancellation, the
\* notification is not persisted or the arguments of its emit cannot be read
\* (notify returns false), or the mail is not delivered, the request still
\* ends as a success (Success, Cancelled), and the ride, the bookings and
\* the history stay as the commit left them.
C21_SinkFailuresContained ==
    [][ /\ \A p \in Procs :
             /\ Leaves(p, "book_persist") =>
                  /\ pc'[p] = IF Notified(Rider)' > Notified(Rider)
                              THEN "book_emit" ELSE "book_mail"
                  /\ result'[p] = result[p]
             /\ (Leaves(p, "book_emit") /\ emitted' = emitted /\ ~Ends(p, "ServerError")) =>
                  pc'[p] = "book_mail" /\ result'[p] = result[p]
             /\ Leaves(p, "book_mail") => Ends(p, "Success")
             /\ (Leaves(p, "cancel_persist") /\ Notified(Rider)' = Notified(Rider)) =>
                  Ends(p, "Cancelled")
             /\ (Leaves(p, "cancel_emit") /\ emitted' = emitted /\ ~Ends(p, "ServerError")) =>
                  Ends(p, "Cancelled")
             /\ pc[p] \in {"book_persist", "book_emit", "book_mail", "cancel_persist",
                            "cancel_emit"} =>
                  /\ applied[p] = 1 /\ applied'[p] = 1
                  /\ Steps(p) => (rides' = rides /\ bookings' = bookings /\ hist' = hist)
        /\ Delivers =>
             /\ result' = result
             /\ rides' = rides /\ bookings' = bookings /\ hist' = hist
      ]_vars

\* C21 witness: the first reservation of the ride succeeded although the
\* owner's notification was not persisted and the sender thread of the
\* passenger's mail has ended without delivering it.
C21_Witness ==
    \E p \in Procs :
        /\ req[p].kind = "book" /\ pc[p] = "done" /\ result[p] = "Success"
        /\ Len(hist) = 1 /\ hist[1].user_id = req[p].user_id
        /\ Notified(Rider) = 0 /\ emitted[Rider] = 0
        /\ emails[req[p].user_id] = 0 /\ outbox[req[p].user_id] = 0
        /\ quota = MaxRequests - 2
        /\ BookingsOf(req[p].ride_id, req[p].user_id) # {}
        /\ rides[1].seats_available = posted[1] - 1
        /\ rides[1].version = InitialVersion + 1

\* ride r, or the set of its bookings, is not the same after the step
Touched(r) ==
    \/ (r \in DOMAIN rides) # (r \in DOMAIN rides')
    \/ /\ r \in DOMAIN rides /\ r \in DOMAIN rides'
       /\ \/ rides'[r].seats_available # rides[r].seats_available
          \/ rides'[r].version # rides[r].version
    \/ RowsOf(bookings', r) # RowsOf(bookings, r)

\* C22 (as claimed): a step of a book_ride, cancel_booking or delete_ride
\* request on one ride changes neither seats_available, nor the version, nor
\* the bookings of any other ride.
C22_RidesIndependent ==
    [][\A r \in TwoRides :
         Touched(r) => \E p \in Procs : Steps(p) /\ req[p].ride_id = r
      ]_vars

\* the filter of the ride, as the specification words it, and a gender
FilterAdmits(ride, g) ==
    ride.rider_gender_preference = "Any" \/ ride.rider_gender_preference = g

\* C23: book_ride creates a booking only if the filter of the ride is Any
\* or equals the gender of the passenger object the request holds (the one
\* "passenger.gender" reads); an attempt that observes a filter which is
\* not Any and differs from that gender ends the call as PolicyRejected in
\* the step that observes it, with seats_available, version and the bookings
\* unchanged; and PolicyRejected is the outcome of such an attempt only.
C23_GenderFilter ==
    [][\A p \in Procs :
         LET r == req[p].ride_id
             u == req[p].user_id
             Reloads == rides[r].rider_gender_preference # "Any" /\ local[p].expired
         IN
         /\ (req[p].kind = "book" /\ applied'[p] > applied[p]) =>
                /\ FilterAdmits(rides[r], local[p].gender)
                /\ \E b \in bookings' \ bookings :
                      b.ride_id = r /\ b.passenger_id = u
         /\ ( /\ Leaves(p, "book_read") /\ r \in DOMAIN rides /\ ~Reloads
              /\ ~FilterAdmits(rides[r], local[p].gender) ) =>
                /\ Ends(p, "PolicyRejected")
                /\ rides' = rides /\ bookings' = bookings /\ hist' = hist
                /\ applied'[p] = applied[p]
         /\ ( /\ Leaves(p, "book_passenger")
              /\ ~FilterAdmits(local[p], genders[u]) ) =>
                /\ Ends(p, "PolicyRejected")
                /\ rides' = rides /\ bookings' = bookings /\ hist' = hist
                /\ applied'[p] = applied[p]
         /\ (req[p].kind = "book" /\ Ends(p, "PolicyRejected")) =>
                \/ /\ pc[p] = "book_read" /\ ~Reloads
                   /\ ~FilterAdmits(rides[r], local[p].gender)
                \/ /\ pc[p] = "book_passenger"
                   /\ ~FilterAdmits(local[p], genders[u])
      ]_vars

\* C23 witness: on a ride for women, passenger 1 edited the profile to
\* Female and booked; passenger 2, whose profile now says Male, was rejected
\* on the first attempt and holds no booking; one seat is taken.
C23_Witness ==
    \E p \in Procs :
        /\ req[p].kind = "book" /\ req[p].user_id = 2
        /\ pc[p] = "done" /\ result[p] = "PolicyRejected" /\ attempt[p] = 1
        /\ rides[1].rider_gender_preference = "Female"
        /\ genders[1] = "Female" /\ genders[2] = "Male"
        /\ BookingsOf(1, 1) # {} /\ BookingsOf(1, 2) = {}
        /\ rides[1].seats_available = posted[1] - 1

\* the positions where a request is inside create_notification, before its
\* commit and before its emit
PersistSteps == {"book_persist", "cancel_persist", "delete_persist", "rate_persist"}
EmitSteps == {"book_emit", "cancel_emit", "delete_emit", "rate_emit"}

\* C24: a 'new_notification' is emitted only by a notify whose row was
\* committed in an earlier step and is in the table, one emit to the user
\* of that row; the step that commits the row emits nothing; and a notify
\* whose persistence fails emits nothing, writes nothing, and lets its
\* caller go on to its success.
C24_PersistBeforeEmit ==
    /\ [](\A p \in Procs : pc[p] \in EmitSteps => local[p].note_id >= 1)
    /\ [][ /\ \A u \in Accounts :
                 emitted'[u] # emitted[u] =>
                    /\ emitted'[u] = emitted[u] + 1
                    /\ notifications' = notifications
                    /\ \E p \in Procs :
                          /\ pc[p] \in EmitSteps /\ Steps(p)
                          /\ [id |-> local[p].note_id, user_id |-> u] \in notifications
           /\ \A p \in Procs :
                 (pc[p] \in PersistSteps /\ Steps(p)) =>
                     /\ emitted' = emitted
                     /\ IF notifications' # notifications
                        THEN /\ pc'[p] \in EmitSteps
                             /\ notifications' = notifications \cup
                                    {[id |-> local'[p].note_id,
                                      user_id |-> local[p].note_user]}
                             /\ local'[p].note_user = local[p].note_user
                        ELSE /\ rides' = rides /\ bookings' = bookings
                             /\ pc'[p] \in {"book_mail", "done"}
                             /\ pc'[p] = "done" => result'[p] = "Cancelled"
         ]_vars

\* C24 witness: of two committed seat mutations the owner has one
\* notification, persisted and emitted; the notify of the other failed and
\* its request ended as a success all the same.
C24_Witness ==
    /\ Len(hist) = 2
    /\ Notified(Rider) = 1 /\ emitted[Rider] = 1
    /\ quota = MaxRequests - 3
    /\ \A p \in {1, 2} : pc[p] = "done" /\ result[p] \in {"Success", "Cancelled"}

\* C25 (as claimed): there is at most one rating per (ride, passenger), and
\* a rating is created only in a state where the ride's end instant has
\* passed and the passenger has a booking on the ride.
C25_RatingOnlyAfterRide ==
    /\ [](\A x, y \in ratings :
            (x.ride_id = y.ride_id /\ x.passenger_id = y.passenger_id) => x = y)
    /\ [][\A x \in ratings' \ ratings :
            /\ x.ride_id \in DOMAIN rides
            /\ now > ride_dt_end_of(rides[x.ride_id])
            /\ BookingsOf(x.ride_id, x.passenger_id) # {}
         ]_vars

\* C26 (as claimed): under book_ride and cancel_booking requests, in every
\* committed state seats_available plus the number of bookings of a ride is
\* the number of seats the ride was posted with.
C26_SeatsPlusBookings ==
    \A r \in DOMAIN rides :
        rides[r].seats_available + Cardinality(RowsOf(bookings, r)) = posted[r]

\* C27: when several preconditions of a reservation fail at once, the
\* outcome is that of the first in the order NotFound, PolicyRejected,
\* RideCompleted, AlreadyBooked, RideFull: a missing ride gives NotFound
\* even to a passenger with a booking of it, a filter that does not admit
\* the passenger gives PolicyRejected even on a completed ride, a completed
\* ride gives RideCompleted even to a passenger with a booking or on a ride
\* without seats, and a passenger with a booking gets AlreadyBooked even
\* when no seat is left; and every outcome implies that the preconditions
\* before it held.
C27_PreconditionOrder ==
    [][\A p \in Procs :
         LET r == req[p].ride_id
             u == req[p].user_id
             reloads == rides[r].rider_gender_preference # "Any" /\ local[p].expired
         IN
         /\ (Leaves(p, "book_read") /\ r \notin DOMAIN rides) =>
                Ends(p, "NotFound")
         /\ ( /\ Leaves(p, "book_read") /\ r \in DOMAIN rides /\ ~reloads
              /\ ~FilterAdmits(rides[r], local[p].gender) ) =>
                Ends(p, "PolicyRejected")
         /\ ( /\ Leaves(p, "book_read") /\ r \in DOMAIN rides /\ ~reloads
              /\ FilterAdmits(rides[r], local[p].gender)
              /\ now > ride_dt_end_of(rides[r]) ) =>
                Ends(p, "RideCompleted")
         /\ (Leaves(p, "book_read") /\ r \in DOMAIN rides /\ reloads) =>
                pc'[p] = "book_passenger"
         /\ (Leaves(p, "book_passenger") /\ ~FilterAdmits(local[p], genders[u])) =>
                Ends(p, "PolicyRejected")
         /\ ( /\ Leaves(p, "book_passenger")
              /\ FilterAdmits(local[p], genders[u])
              /\ now > ride_dt_end_of(local[p]) ) =>
                Ends(p, "RideCompleted")
         /\ (Leaves(p, "book_check") /\ BookingsOf(r, u) # {}) =>
                Ends(p, "AlreadyBooked")
         /\ (req[p].kind = "book" /\ Ends(p, "PolicyRejected")) =>
                \/ pc[p] = "book_read" /\ r \in DOMAIN rides
                \/ pc[p] = "book_passenger"
         /\ (req[p].kind = "book" /\ Ends(p, "RideCompleted")) =>
                \/ /\ pc[p] = "book_read" /\ r \in DOMAIN rides
                   /\ FilterAdmits(rides[r], local[p].gender)
                \/ /\ pc[p] = "book_passenger"
                   /\ FilterAdmits(local[p], genders[u])
         /\ (req[p].kind = "book" /\ Ends(p, "RideFull")) =>
                /\ pc[p] = "book_check"
                /\ BookingsOf(r, u) = {}
                /\ local[p].seats_available <= 0
      ]_vars

\* C27 witness: on a ride for women without a seat left, passenger 2, who
\* holds the booking, was answered AlreadyBooked, and after the end of the
\* ride passenger 1, a man, was answered PolicyRejected.
C27_Witness ==
    /\ 1 \in DOMAIN rides
    /\ rides[1].rider_gender_preference = "Female"
    /\ rides[1].seats_available = 0
    /\ now > ride_dt_end_of(rides[1])
    /\ \E p, q \in Procs :
         /\ req[p].kind = "book" /\ req[p].user_id = 2
         /\ pc[p] = "done" /\ result[p] = "AlreadyBooked"
         /\ BookingsOf(1, 2) # {}
         /\ req[q].kind = "book" /\ req[q].user_id = 1
         /\ pc[q] = "done" /\ result[q] = "PolicyRejected"

\* request p has called notify for the owner
Called(p) == pc[p] \in {"book_emit", "book_mail", "cancel_persist", "cancel_emit"}

\* C28 (as claimed): a book_ride or cancel_booking request that ends has
\* called notify for the owner once if it committed a seat mutation, and
\* not at all if it ended as NotFound, PolicyRejected, RideCompleted,
\* AlreadyBooked, RideFull, HighContention or StoreFailure.
C28_NotifyOncePerMutation ==
    [][\A p \in Procs :
         ( /\ req[p].kind \in {"book", "cancel"}
           /\ pc[p] # "done" /\ pc'[p] = "done" ) =>
             /\ applied[p] = 1 => Called(p)
             /\ result'[p] \notin {"Success", "Cancelled"} => ~Called(p)
      ]_vars

\* how many times the request of slot p has called notify for user u
Told(p, u) == Cardinality({i \in 1..Len(local[p].told) : local[p].told[i] = u})

\* C29 (as claimed): a delete_ride that deletes the ride has called notify
\* once for each booking the ride has when it is deleted, for the passenger
\* of that booking, and for nobody else.
C29_DeleteNotifiesBookings ==
    [][\A p \in Procs :
         Ends(p, "Deleted") =>
            \A u \in Users :
               Told(p, u) = Cardinality(BookingsOf(req[p].ride_id, u))
      ]_vars

\* positions i < j of the history are releases committed for the same
\* (ride, passenger) with no reservation of that passenger between them:
\* two cancel_booking requests that succeeded for one booking
SameBookingReleasedTwice(i, j) ==
    /\ i < j
    /\ hist[i].kind = "cancel" /\ hist[j].kind = "cancel"
    /\ hist[i].ride_id = hist[j].ride_id /\ hist[i].user_id = hist[j].user_id
    /\ \A k \in (i + 1)..(j - 1) :
          ~(hist[k].kind = "book" /\ hist[k].user_id = hist[i].user_id
               /\ hist[k].ride_id = hist[i].ride_id)

\* C30 (as claimed): of two cancel_booking requests for the same booking at
\* most one commits a release and reports success.
C30_DoubleCancelOnce ==
    \A i, j \in 1..Len(hist) : ~SameBookingReleasedTwice(i, j)

\* C31 (as claimed): in every committed state every booking is of a ride
\* that exists: no booking survives its ride.
C31_BookingsHaveRides ==
    \A b \in bookings : b.ride_id \in DOMAIN rides

\* the seat mutations committed on ride r since request p's attempt read it
CommittedSinceRead(p, r) ==
    {i \in 1..Len(hist) : i > local[p].read_at /\ hist[i].ride_id = r}

\* request p's conditional write is not applied in this step
NotApplied(p) ==
    /\ Leaves(p, "book_write")
    /\ pc'[p] \in {"book_read", "done"}

\* C32: under book_ride and cancel_booking requests, a conditional write is
\* not applied only when a seat mutation was committed on the ride since the
\* attempt's read; an attempt that no writer disturbed commits its booking,
\* so an undisturbed call succeeds on its first attempt; and a call ends as
\* HighContention only after max_retries mutations were committed on its
\* ride, none of them its own: when none of them is a cancellation they
\* are bookings of other reservers, so the reservers do not all end so.
C32_ContentionHasAWinner ==
    /\ [](\A p \in Procs :
             (pc[p] = "done" /\ req[p].kind = "book" /\ result[p] = "HighContention") =>
                LET r == req[p].ride_id
                    m == {i \in 1..Len(hist) : hist[i].ride_id = r}
                IN  /\ Cardinality(m) >= max_retries
                    /\ applied[p] = 0
                    /\ (\A i \in m : hist[i].kind = "book") =>
                           Cardinality(BookEntries(r)) >= max_retries)
    /\ [][\A p \in Procs :
            LET r == req[p].ride_id
            IN  /\ NotApplied(p) => CommittedSinceRead(p, r) # {}
                /\ (pc[p] = "book_write" /\ CommittedSinceRead(p, r) = {}) =>
                       (BookWrite(p) =>
                          /\ pc'[p] = "book_notify"
                          /\ applied'[p] = 1
                          /\ \E b \in bookings' \ bookings :
                                b.ride_id = r /\ b.passenger_id = req[p].user_id)
                /\ Ends(p, "HighContention") => CommittedSinceRead(p, r) # {}
          ]_vars

\* C32 witness: one reservation lost every attempt to the other worker's
\* bookings and cancellations, and that worker's last reservation, which
\* no writer disturbed, succeeded on its first attempt.
C32_Witness ==
    \E p, q \in Procs :
        /\ p # q
        /\ pc[p] = "done" /\ req[p].kind = "book" /\ result[p] = "HighContention"
        /\ pc[q] = "done" /\ req[q].kind = "book" /\ result[q] = "Success"
        /\ attempt[q] = 1
        /\ \E i \in 1..Len(hist) : hist[i].kind = "cancel"

====
